---- MODULE Spec2Model ----
(***************************************************************************)
(* State-machine model of the SnekretAIry memory core: the append-only     *)
(* structured log (telos.jsonl), the journal (journal.md), the audit log   *)
(* (changes.jsonl), the proposal parser and the mutation engine.           *)
(*                                                                         *)
(* Files are modelled by their content: telos.jsonl and changes.jsonl as   *)
(* the sequence of their lines, journal.md as the sequence of its          *)
(* characters (character classes).  A file that does not exist and an      *)
(* empty file read the same in every reader of the source, so both are the *)
(* empty sequence.                                                         *)
(***************************************************************************)
EXTENDS Integers, Sequences, FiniteSets, TLC

VARIABLES
    telos,      \* lines of telos.jsonl, in file order
    journal,    \* characters of journal.md, in file order
    changes,    \* lines of changes.jsonl, in file order
    clock,      \* the last value get_current_timestamp() returned
    last,       \* the call made by the last step and what it returned
    run,        \* the apply_changes_with_audit call in progress, if any
    llm,        \* the model output waiting to be parsed, if any
    cli,        \* the query or chat handler in progress, if any
    gen,        \* the generate_with_validation call in progress, if any
    processed   \* lines of processed_emails.jsonl, in file order

storeVars == <<telos, journal, changes>>
vars == <<telos, journal, changes, clock, last, run, llm, cli, gen, processed>>

----------------------------------------------------------------------------
(* Bounds of the model *)

MaxClock == 2
MaxTelos == 3
MaxLines == 2
MaxJournal == 1
MaxChanges == 2
MaxCorrupt == 1
MaxEntries == 1
MaxItems == 2
MaxEnvelope == 6
MaxTokens == 26
MaxRendering == 110
MaxSelect == 2
MaxRetries == 2
MaxMailbox == 2

----------------------------------------------------------------------------
(* Values *)

\* Python None
NONE == "<None>"
\* a key that is not in a dict
ABSENT == "<absent>"
AbsentTs == -2
\* a timestamp string datetime.fromisoformat rejects
BadTs == -1

\* f"{kind}_{digits of the timestamp}"; update ids also embed the target id.
\* Stripping ':', '-' and '.' from an isoformat() string keeps distinct
\* instants distinct, so the id is the pair (kind, instant) itself.
MakeId(kind, t) == <<kind, t, "-", 0>>
MakeUpdateId(target, t) == <<"update", t, target[1], target[2]>>
AbsentId == <<ABSENT, 0, "-", 0>>
NoId == <<NONE, 0, "-", 0>>

\* float("nan"), which json.loads reads from the token NaN: every
\* comparison with it is false
NaN == 99

GoalStatuses == {"active", "completed", "cancelled"}
TaskStatuses == {"pending", "in_progress", "completed", "cancelled"}

\* no limit: the second argument whatever the first
MinIgnoringLimit(a, b) == b

Min(a, b) == IF a <= b THEN a ELSE b

----------------------------------------------------------------------------
(* Text *)

\* Text is a sequence of characters; a character is a record so that the
\* frontmatter header of a journal block, which carries its metadata, is a
\* character of the file like any other.  Character classes: "a" (a
\* printing character), " " (a blank), "\n" (a newline), "=50" (fifty '='
\* in a row), "fm" (the text "---\n<yaml>---" of a frontmatter header).
NoMeta ==
    [timestamp |-> AbsentTs, type |-> ABSENT, tags |-> <<>>,
     mood |-> ABSENT, location |-> ABSENT, weather |-> ABSENT]
Ch(c) == [c |-> c, meta |-> NoMeta]
NL == Ch("\n")
SP == Ch(" ")
EQ50 == Ch("=50")
FM(meta) == [c |-> "fm", meta |-> meta]

\* values of Optional[str] text fields that are not text
NoneText == <<Ch(NONE)>>
AbsentText == <<Ch(ABSENT)>>
\* a content that is not a string: a JSON number other than 0
NumberContent == <<Ch("<number>")>>

IsSpace(ch) == ch.c \in {" ", "\n"}

RECURSIVE LStrip(_)
LStrip(s) == IF s /= <<>> /\ IsSpace(Head(s)) THEN LStrip(Tail(s)) ELSE s

RECURSIVE RStrip(_)
RStrip(s) ==
    IF s /= <<>> /\ IsSpace(s[Len(s)])
    THEN RStrip(SubSeq(s, 1, Len(s) - 1)) ELSE s

\* str.strip()
Strip(s) == RStrip(LStrip(s))

----------------------------------------------------------------------------
(* utils/timestamps.py *)

validate_timestamp(ts) == ts >= 0

----------------------------------------------------------------------------
(* memory/telos.py: records *)

\* One line of telos.jsonl.  shape: "object" (a JSON object), "nonobject"
\* (JSON, but a list, a number or a string), "notjson" (json.loads fails).
\* tags, priority, due_date and parent_goal are stored verbatim and are read
\* by no branch of the store; they are left out of the record.
Line(shape, type, id, ts, content, status, target, old, new, ttype) ==
    [shape |-> shape, type |-> type, id |-> id, timestamp |-> ts,
     content |-> content, status |-> status, target_id |-> target,
     old_status |-> old, new_status |-> new, target_type |-> ttype]

\* asdict(Goal(id=..., timestamp=..., content=...)): status defaults to active
Goal(id, ts, content) ==
    Line("object", "goal", id, ts, content, "active",
         AbsentId, ABSENT, ABSENT, ABSENT)

\* asdict(Task(id=..., timestamp=..., content=...)): status defaults to pending
Task(id, ts, content) ==
    Line("object", "task", id, ts, content, "pending",
         AbsentId, ABSENT, ABSENT, ABSENT)

\* old_status and new_status written the wrong way round
StatusUpdateSwapped(id, ts, target, old, new, ttype) ==
    Line("object", "status_update", id, ts, AbsentText, ABSENT,
         target, new, old, ttype)

\* the status_update dict of update_status
StatusUpdate(id, ts, target, old, new, ttype) ==
    Line("object", "status_update", id, ts, AbsentText, ABSENT,
         target, old, new, ttype)

\* `field not in entry`
Missing(e, f) ==
    CASE f = "id" -> e.id = AbsentId
      [] f = "target_id" -> e.target_id = AbsentId
      [] f = "timestamp" -> e.timestamp = AbsentTs
      [] f = "content" -> e.content = AbsentText
      [] OTHER -> e[f] = ABSENT

\* entry.get(f)
Get(e, f) == IF e[f] = ABSENT THEN NONE ELSE e[f]

RequiredFields(type) ==
    IF type \in {"goal", "task"}
    THEN {"id", "timestamp", "type", "content"}
    ELSE IF type = "status_update"
    THEN {"id", "timestamp", "type", "target_id", "new_status", "target_type"}
    ELSE {"id", "timestamp", "type", "content"}

\* one list of statuses for goals and tasks alike
ValidStatusesOfAnyKind(type) == GoalStatuses \cup TaskStatuses

\* valid_statuses, chosen by the type of the entry
ValidStatusesOf(type) == IF type = "goal" THEN GoalStatuses ELSE TaskStatuses

\* TelosManager._validate_entry: "ok", or the exception it raises
validate_entry(e) ==
    IF e.type = ABSENT THEN "KeyError"
    ELSE IF \E f \in RequiredFields(e.type) : Missing(e, f) THEN "TelosError"
    ELSE IF ~validate_timestamp(e.timestamp) THEN "TelosError"
    ELSE IF e.type \notin {"goal", "task", "status_update"} THEN "TelosError"
    ELSE IF e.type \in {"goal", "task"}
    THEN IF Get(e, "status") \notin ValidStatusesOf(e.type)
         THEN "TelosError" ELSE "ok"
    ELSE IF e.target_type \notin {"goal", "task"} THEN "TelosError"
    ELSE IF e.new_status \notin ValidStatusesOf(e.target_type)
    THEN "TelosError"
    ELSE "ok"

\* the file opened with 'w' instead of 'a'
AppendLineTruncating(file, line) == <<line>>

\* with open(file, 'a') as f: f.write(line)
AppendLine(file, line) == Append(file, line)

\* TelosManager._append_entry: the file afterwards and the exception, if any
append_entry(file, e) ==
    LET v == validate_entry(e) IN
    IF v = "ok" THEN [file |-> AppendLine(file, e), exc |-> "none"]
    ELSE [file |-> file, exc |-> v]

----------------------------------------------------------------------------
(* memory/telos.py: operations *)

RECURSIVE ReadLines(_, _)
\* the loop of get_all_entries over the lines still to read
ReadLines(lines, acc) ==
    IF lines = <<>> THEN [exc |-> "none", entries |-> acc]
    ELSE LET line == Head(lines) IN
         IF line.shape = "notjson" THEN ReadLines(Tail(lines), acc)
         ELSE IF line.shape = "nonobject"
         THEN [exc |-> "TypeError", entries |-> <<>>]
         ELSE LET v == validate_entry(line) IN
              IF v = "ok" THEN ReadLines(Tail(lines), Append(acc, line))
              ELSE IF v = "TelosError" THEN ReadLines(Tail(lines), acc)
              ELSE [exc |-> v, entries |-> <<>>]

\* TelosManager.get_all_entries
get_all_entries(file) == ReadLines(file, <<>>)

\* TelosManager.add_goal: t1 is the clock read for the id, t2 for the timestamp
add_goal(file, content, t1, t2) ==
    LET goal_id == MakeId("goal", t1)
        r == append_entry(file, Goal(goal_id, t2, content)) IN
    [file |-> r.file,
     ret |-> IF r.exc = "none" THEN "id" ELSE r.exc,
     id |-> IF r.exc = "none" THEN goal_id ELSE NoId]

\* TelosManager.add_task
add_task(file, content, t1, t2) ==
    LET task_id == MakeId("task", t1)
        r == append_entry(file, Task(task_id, t2, content)) IN
    [file |-> r.file,
     ret |-> IF r.exc = "none" THEN "id" ELSE r.exc,
     id |-> IF r.exc = "none" THEN task_id ELSE NoId]

\* the filter of get_goals / get_tasks
FilterStatus(records, status_filter) ==
    IF status_filter /= NONE
    THEN SelectSeq(records, LAMBDA g : Get(g, "status") = status_filter)
    ELSE records

\* TelosManager.get_goals
get_goals(file, status_filter) ==
    LET r == get_all_entries(file) IN
    IF r.exc /= "none" THEN [exc |-> r.exc, entries |-> <<>>]
    ELSE [exc |-> "none",
          entries |-> FilterStatus(
              SelectSeq(r.entries, LAMBDA e : e.type = "goal"), status_filter)]

\* TelosManager.get_tasks (parent_goal not given)
get_tasks(file, status_filter) ==
    LET r == get_all_entries(file) IN
    IF r.exc /= "none" THEN [exc |-> r.exc, entries |-> <<>>]
    ELSE [exc |-> "none",
          entries |-> FilterStatus(
              SelectSeq(r.entries, LAMBDA e : e.type = "task"), status_filter)]

\* TelosManager.update_status
update_status(file, entry_id, new_status, t1, t2) ==
    LET r == get_all_entries(file) IN
    IF r.exc /= "none" THEN [file |-> file, ret |-> r.exc]
    ELSE LET hits == SelectSeq(r.entries, LAMBDA e : e.id = entry_id) IN
         IF hits = <<>> THEN [file |-> file, ret |-> "False"]
         ELSE LET entry == Head(hits) IN
              IF new_status \notin ValidStatusesOf(entry.type)
              THEN [file |-> file, ret |-> "TelosError"]
              ELSE LET a == append_entry(file,
                                StatusUpdate(MakeUpdateId(entry_id, t1), t2,
                                             entry_id, Get(entry, "status"),
                                             new_status, entry.type)) IN
                   [file |-> a.file,
                    ret |-> IF a.exc = "none" THEN "True" ELSE a.exc]

----------------------------------------------------------------------------
(* memory/journal.py *)

EntryTypes == {"reflection", "gratitude", "learning", "goal_review", "planning"}

\* JournalEntry(timestamp, type, content, tags, mood, location, weather)
JournalEntry(ts, type, content, tags, mood, location, weather) ==
    [timestamp |-> ts, type |-> type, content |-> content, tags |-> tags,
     mood |-> mood, location |-> location, weather |-> weather]

\* `if entry.mood:` - None and the empty string are both left out
Truthy(v) == v /= NONE /\ v /= ""

\* JournalManager._format_entry.  yaml.dump of a dict of strings and lists
\* of strings is read back unchanged by yaml.safe_load, so the header
\* carries the dict itself.
format_entry(entry) ==
    LET frontmatter ==
            [timestamp |-> entry.timestamp, type |-> entry.type,
             tags |-> entry.tags,
             mood |-> IF Truthy(entry.mood) THEN entry.mood ELSE ABSENT,
             location |-> IF Truthy(entry.location)
                          THEN entry.location ELSE ABSENT,
             weather |-> IF Truthy(entry.weather)
                         THEN entry.weather ELSE ABSENT] IN
    <<FM(frontmatter), NL, NL>> \o entry.content \o <<NL, NL>>

\* JournalManager._validate_entry: "ok", or the exception it raises
journal_validate_entry(entry) ==
    IF ~validate_timestamp(entry.timestamp) THEN "JournalError"
    ELSE IF entry.type \notin EntryTypes THEN "JournalError"
    ELSE IF entry.content = NoneText THEN "AttributeError"
    ELSE IF Strip(entry.content) = <<>> THEN "JournalError"
    ELSE "ok"

\* f.write(formatted_entry); f.write('\n' + '='*50 + '\n\n') in append mode
AppendText(file, text) == file \o text

\* JournalManager._append_entry
journal_append_entry(file, entry) ==
    LET v == journal_validate_entry(entry) IN
    IF v = "ok"
    THEN [file |-> AppendText(file,
                       format_entry(entry) \o <<NL, EQ50, NL, NL>>),
          exc |-> "none"]
    ELSE [file |-> file, exc |-> v]

\* JournalManager.add_entry
add_entry(file, content, entry_type, tags, mood, location, weather, t) ==
    LET r == journal_append_entry(file,
                 JournalEntry(t, entry_type, content, tags,
                              mood, location, weather)) IN
    [file |-> r.file, ret |-> IF r.exc = "none" THEN "timestamp" ELSE r.exc]

RECURSIVE EqRun(_)
\* the number of leading "=50" characters of s
EqRun(s) == IF s /= <<>> /\ Head(s) = EQ50 THEN 1 + EqRun(Tail(s)) ELSE 0

\* the length of the match of \n={50,}\n\n at the start of s, 0 if none
MatchSeparator(s) ==
    IF s = <<>> \/ Head(s) /= NL THEN 0
    ELSE LET k == EqRun(Tail(s)) IN
         IF k >= 1 /\ Len(s) >= k + 3 /\ s[k + 2] = NL /\ s[k + 3] = NL
         THEN k + 3 ELSE 0

RECURSIVE SplitBlocks(_, _)
\* re.split(r'\n={50,}\n\n', s), cur being the block read so far
SplitBlocks(s, cur) ==
    IF s = <<>> THEN <<cur>>
    ELSE LET m == MatchSeparator(s) IN
         IF m > 0
         THEN <<cur>> \o SplitBlocks(SubSeq(s, m + 1, Len(s)), <<>>)
         ELSE SplitBlocks(Tail(s), Append(cur, Head(s)))

RECURSIVE SpaceRun(_)
\* the number of leading whitespace characters of s
SpaceRun(s) == IF s /= <<>> /\ IsSpace(Head(s)) THEN 1 + SpaceRun(Tail(s)) ELSE 0

\* JournalManager._parse_frontmatter: ^---\s*\n(.*?)\n---\s*\n(.*) matches
\* when the block starts with a header that is followed by whitespace
\* holding a newline; group 2 starts after the last newline of that run.
parse_frontmatter(block) ==
    IF block = <<>> \/ Head(block).c /= "fm"
    THEN [frontmatter |-> NoMeta, content |-> block]
    ELSE LET rest == Tail(block)
             w == SpaceRun(rest)
             nls == {i \in 1..w : rest[i] = NL} IN
         IF nls = {}
         THEN [frontmatter |-> NoMeta, content |-> block]
         ELSE LET lastnl == CHOOSE i \in nls : \A j \in nls : j <= i IN
              [frontmatter |-> Head(block).meta,
               content |-> SubSeq(rest, lastnl + 1, Len(rest))]

RECURSIVE ReadBlocks(_)
\* the loop of get_all_entries over the blocks
ReadBlocks(blocks) ==
    IF blocks = <<>> THEN <<>>
    ELSE LET block == Head(blocks) IN
         IF Strip(block) = <<>> THEN ReadBlocks(Tail(blocks))
         ELSE LET p == parse_frontmatter(Strip(block)) IN
              IF p.frontmatter /= NoMeta
              THEN <<[frontmatter |-> p.frontmatter,
                      content |-> Strip(p.content)]>>
                   \o ReadBlocks(Tail(blocks))
              ELSE ReadBlocks(Tail(blocks))

\* JournalManager.get_all_entries
journal_get_all_entries(file) == ReadBlocks(SplitBlocks(Strip(file), <<>>))

\* frontmatter.get(f)
MetaGet(meta, f) == IF meta[f] = ABSENT THEN NONE ELSE meta[f]

\* JournalManager.search_entries(entry_type=..): the type filter alone
search_entries(file, entry_type) ==
    IF entry_type = NONE THEN journal_get_all_entries(file)
    ELSE SelectSeq(journal_get_all_entries(file),
                   LAMBDA e : MetaGet(e.frontmatter, "type") = entry_type)

----------------------------------------------------------------------------
(* proposals/__init__.py *)

\* TelosProposal(action, content, goal_id, task_id, new_status, priority);
\* tags and due_date are carried verbatim and are left out.
TelosProposal(action, content, goal_id, task_id, new_status, priority) ==
    [action |-> action, content |-> content, goal_id |-> goal_id,
     task_id |-> task_id, new_status |-> new_status, priority |-> priority]

\* JournalProposal(action, content, entry_type, tags, mood, location, weather)
JournalProposal(action, content, entry_type, tags, mood, location, weather) ==
    [action |-> action, content |-> content, entry_type |-> entry_type,
     tags |-> tags, mood |-> mood, location |-> location, weather |-> weather]

\* ChangeProposal; confidence_score is counted in tenths.  reasoning,
\* timestamp and raw_llm_output are carried verbatim and are left out.
ChangeProposal(proposal_id, talaos_proposals, journal_proposals, confidence) ==
    [proposal_id |-> proposal_id, talaos_proposals |-> talaos_proposals,
     journal_proposals |-> journal_proposals, confidence_score |-> confidence]

NoProposal == ChangeProposal(NONE, <<>>, <<>>, 0)

TalaosActions == {"add_goal", "add_task", "update_status"}
JournalActions == {"add_entry"}
Priorities == {"low", "medium", "high"}

\* only a missing content counts as blank
BlankTextNoneOnly(content) == content = NoneText

\* `not proposal.content or not proposal.content.strip()`
BlankText(content) == content = NoneText \/ Strip(content) = <<>>

\* ProposalEngine._validate_talaos_proposal: "ok" or the exception raised
validate_talaos_proposal(tp) ==
    IF tp.action \notin TalaosActions THEN "ProposalError"
    ELSE IF tp.action \in {"add_goal", "add_task"}
            /\ tp.content = NumberContent
    THEN "AttributeError"
    ELSE IF tp.action \in {"add_goal", "add_task"} /\ BlankText(tp.content)
    THEN "ProposalError"
    ELSE IF tp.action = "update_status"
            /\ \/ (tp.goal_id = NoId /\ tp.task_id = NoId)
               \/ tp.new_status = NONE
               \/ tp.new_status \notin
                      (IF tp.goal_id /= NoId THEN GoalStatuses ELSE TaskStatuses)
    THEN "ProposalError"
    ELSE IF tp.priority /= NONE /\ tp.priority \notin Priorities
    THEN "ProposalError"
    ELSE "ok"

\* ProposalEngine._validate_journal_proposal: "ok" or the exception raised
validate_journal_proposal(jp) ==
    IF jp.action \notin JournalActions THEN "ProposalError"
    ELSE IF jp.content = NumberContent THEN "AttributeError"
    ELSE IF BlankText(jp.content) THEN "ProposalError"
    ELSE IF jp.entry_type \notin EntryTypes THEN "ProposalError"
    ELSE "ok"

\* the safety ceiling of _validate_proposal
MaxChangesPerProposal == 5

\* no ceiling at all
ExceedsCeilingNever(total_changes) == FALSE

\* `total_changes > 5`
ExceedsCeiling(total_changes) == total_changes > MaxChangesPerProposal

\* the loops of _validate_proposal stop at the first item that raises
FirstRaised(outcomes) ==
    outcomes[CHOOSE i \in 1..Len(outcomes) :
                 /\ outcomes[i] /= "ok"
                 /\ \A j \in 1..(i - 1) : outcomes[j] = "ok"]

\* ProposalEngine._validate_proposal: "ok" or the exception raised
validate_proposal(proposal) ==
    IF \/ proposal.confidence_score = NaN
       \/ ~(0 <= proposal.confidence_score /\ proposal.confidence_score <= 10)
    THEN "ProposalError"
    ELSE IF \E i \in 1..Len(proposal.talaos_proposals) :
                validate_talaos_proposal(proposal.talaos_proposals[i]) /= "ok"
    THEN FirstRaised([i \in 1..Len(proposal.talaos_proposals) |->
                        validate_talaos_proposal(proposal.talaos_proposals[i])])
    ELSE IF \E i \in 1..Len(proposal.journal_proposals) :
                validate_journal_proposal(proposal.journal_proposals[i]) /= "ok"
    THEN FirstRaised([i \in 1..Len(proposal.journal_proposals) |->
                        validate_journal_proposal(proposal.journal_proposals[i])])
    ELSE IF ExceedsCeiling(Len(proposal.talaos_proposals)
                           + Len(proposal.journal_proposals))
    THEN "ProposalError"
    ELSE IF \E i \in 1..Len(proposal.talaos_proposals) :
                proposal.talaos_proposals[i].action \notin TalaosActions
    THEN "ProposalError"
    ELSE IF \E i \in 1..Len(proposal.journal_proposals) :
                proposal.journal_proposals[i].action \notin JournalActions
    THEN "ProposalError"
    ELSE "ok"

\* A decoded JSON item of talaos_proposals / journal_proposals is the
\* proposal record it would build plus `form`: "ok" (a dict whose keys are
\* fields of the dataclass, action among them), "unknown_key" (a dict with a
\* key the dataclass does not have), "no_action" (a dict without action).
JsonItem(form, proposal) == [form |-> form, p |-> proposal]

\* TelosProposal(**tp_data) / JournalProposal(**jp_data) raises TypeError
Constructs(item) == item.form = "ok"

RECURSIVE BuildProposals(_)
\* the loops of _parse_json_proposal: items that raise are dropped
BuildProposals(items) ==
    IF items = <<>> THEN <<>>
    ELSE IF Constructs(Head(items))
    THEN <<Head(items).p>> \o BuildProposals(Tail(items))
    ELSE BuildProposals(Tail(items))

\* min(max(float(c), 0.0), 1.0), in tenths; max(nan, 0.0) and min(nan, 1.0)
\* are nan
ClampConfidence(c) ==
    IF c = NaN THEN NaN ELSE IF c < 0 THEN 0 ELSE IF c > 10 THEN 10 ELSE c

\* The decoded JSON value handed to _parse_json_proposal.  shape: "object"
\* or "list"; confidence: [kind |-> "number" | "text" | "absent", v |-> tenths]
Envelope(shape, proposal_id, confidence, talaos, journal_items) ==
    [shape |-> shape, proposal_id |-> proposal_id, confidence |-> confidence,
     talaos_proposals |-> talaos, journal_proposals |-> journal_items]

\* what a parse returns: the proposal, or the exception raised; `decoded`
\* is the ChangeProposal the parser built before validating it
Result(ret, proposal, decoded) ==
    [ret |-> ret, proposal |-> proposal, decoded |-> decoded]

\* ProposalEngine._parse_json_proposal
parse_json_proposal(parsed) ==
    IF parsed.shape /= "object"
    THEN Result("AttributeError", NoProposal, NoProposal)
    ELSE IF parsed.confidence.kind = "text"
    THEN Result("ValueError", NoProposal, NoProposal)
    ELSE LET proposal ==
                 ChangeProposal(
                     IF parsed.proposal_id = NONE
                     THEN "proposal_now" ELSE parsed.proposal_id,
                     BuildProposals(parsed.talaos_proposals),
                     BuildProposals(parsed.journal_proposals),
                     ClampConfidence(IF parsed.confidence.kind = "absent"
                                     THEN 5 ELSE parsed.confidence.v))
             v == validate_proposal(proposal) IN
         IF v = "ok" THEN Result("proposal", proposal, proposal)
         ELSE Result(v, NoProposal, proposal)

\* The free text, as the regular expressions of _parse_text_proposal see
\* it: the quoted texts goal_matches and reflection_matches capture, and
\* whether the word "task" occurs.
TextView(goal_matches, has_task, reflection_matches) ==
    [goal_matches |-> goal_matches, has_task |-> has_task,
     reflection_matches |-> reflection_matches]

Suggested == <<"suggested">>

\* ProposalEngine._parse_text_proposal
parse_text_proposal(text) ==
    LET goals == SubSeq(text.goal_matches, 1, Min(2, Len(text.goal_matches)))
        refl == SubSeq(text.reflection_matches, 1,
                       Min(1, Len(text.reflection_matches)))
        proposal ==
            ChangeProposal(
                "text_proposal_now",
                [i \in 1..Len(goals) |->
                    TelosProposal(IF text.has_task THEN "add_task" ELSE "add_goal",
                                  Strip(goals[i]), NoId, NoId, NONE, NONE)],
                [i \in 1..Len(refl) |->
                    JournalProposal("add_entry", Strip(refl[i]), "reflection",
                                    Suggested, NONE, NONE, NONE)],
                3)
        v == validate_proposal(proposal) IN
    IF v = "ok" THEN Result("proposal", proposal, proposal)
    ELSE Result(v, NoProposal, proposal)

\* The model output, as parse_llm_output sees it.  fence: "none" (no
\* ```json block), "undecodable" (a block json.loads rejects) or "json" (a
\* block that decodes to `fenced`); whole: "json" when the whole output
\* decodes (to `body`), else "undecodable".  A text that holds a fenced
\* block is not itself JSON.
LlmOutput(fence, fenced, whole, body, text) ==
    [fence |-> fence, fenced |-> fenced, whole |-> whole, body |-> body,
     text |-> text]

NoEnvelope == Envelope("none", NONE, [kind |-> "absent", v |-> 0], <<>>, <<>>)
NoText == TextView(<<>>, FALSE, <<>>)
\* no output is waiting
NoOutput == LlmOutput("none", NoEnvelope, "none", NoEnvelope, NoText)

\* a fenced block whose intent is refused is passed over
parse_llm_output_skipping_refused(llm_output) ==
    IF llm_output.fence = "json"
       /\ parse_json_proposal(llm_output.fenced).ret = "proposal"
    THEN parse_json_proposal(llm_output.fenced)
    ELSE IF llm_output.whole = "json" THEN parse_json_proposal(llm_output.body)
    ELSE parse_text_proposal(llm_output.text)

\* ProposalEngine.parse_llm_output
parse_llm_output(llm_output) ==
    IF llm_output.fence = "json" THEN parse_json_proposal(llm_output.fenced)
    ELSE IF llm_output.whole = "json" THEN parse_json_proposal(llm_output.body)
    ELSE parse_text_proposal(llm_output.text)

----------------------------------------------------------------------------
(* changes/__init__.py *)

\* the record dict of _apply_talaos_change / _apply_journal_change;
\* description and details are derived from the other fields
ChangeRecord(change_id, ts, proposal_id, change_type, action, target_id, success, error) ==
    [change_id |-> change_id, timestamp |-> ts, proposal_id |-> proposal_id,
     change_type |-> change_type, action |-> action, target_id |-> target_id,
     success |-> success, error |-> error]

\* f"{proposal_id}_{change_type}_{change_number}"
ChangeId(proposal_id, change_type, n) == <<proposal_id, change_type, n>>

\* `proposal.content or ""`
OrEmpty(content) == IF content = NoneText THEN <<>> ELSE content

\* MutationEngine._apply_talaos_change: the structured log afterwards and
\* the change record
apply_talaos_change(file, tp, proposal_id, n, now) ==
    LET rec(target, success, error) ==
            ChangeRecord(ChangeId(proposal_id, "talaos", n), now, proposal_id,
                         "talaos", tp.action, target, success, error) IN
    IF tp.action = "add_goal"
    THEN LET r == add_goal(file, OrEmpty(tp.content), now, now) IN
         [file |-> r.file,
          record |-> IF r.ret = "id" THEN rec(r.id, TRUE, NONE)
                     ELSE rec(NoId, FALSE, r.ret)]
    ELSE IF tp.action = "add_task"
    THEN LET r == add_task(file, OrEmpty(tp.content), now, now) IN
         [file |-> r.file,
          record |-> IF r.ret = "id" THEN rec(r.id, TRUE, NONE)
                     ELSE rec(NoId, FALSE, r.ret)]
    ELSE IF tp.action = "update_status"
    THEN LET target_id == IF tp.goal_id /= NoId THEN tp.goal_id ELSE tp.task_id IN
         IF target_id /= NoId /\ tp.new_status /= NONE
         THEN LET r == update_status(file, target_id, tp.new_status, now, now) IN
              [file |-> r.file,
               record |-> IF r.ret \in {"True", "False"}
                          THEN rec(target_id, r.ret = "True", NONE)
                          ELSE rec(NoId, FALSE, r.ret)]
         ELSE [file |-> file,
               record |-> rec(NoId, FALSE, "Missing target_id or new_status")]
    ELSE [file |-> file, record |-> rec(NoId, FALSE, NONE)]

\* MutationEngine._apply_journal_change: the journal afterwards and the
\* change record
apply_journal_change(file, jp, proposal_id, n, now) ==
    LET rec(target, success, error) ==
            ChangeRecord(ChangeId(proposal_id, "journal", n), now, proposal_id,
                         "journal", jp.action, target, success, error) IN
    IF jp.action = "add_entry"
    THEN LET r == add_entry(file, jp.content, jp.entry_type, jp.tags,
                            jp.mood, jp.location, jp.weather, now) IN
         [file |-> r.file,
          record |-> IF r.ret = "timestamp"
                     THEN rec(MakeId("entry", now), TRUE, NONE)
                     ELSE rec(NoId, FALSE, r.ret)]
    ELSE [file |-> file, record |-> rec(NoId, FALSE, NONE)]

RECURSIVE write_audit_records(_, _)
\* MutationEngine._write_audit_records: one line appended per record
write_audit_records(file, records) ==
    IF records = <<>> THEN file
    ELSE write_audit_records(AppendLine(file, Head(records)), Tail(records))

RECURSIVE write_audit_records_failing(_, _, _, _)
\* MutationEngine._write_audit_records when open() or the write raises for
\* the records at the positions `failed`: the exception is caught and
\* logged, and the loop goes on with record i + 1
write_audit_records_failing(file, records, i, failed) ==
    IF i > Len(records) THEN file
    ELSE write_audit_records_failing(
             IF i \in failed THEN file ELSE AppendLine(file, records[i]),
             records, i + 1, failed)

\* success as soon as one item succeeded
OverallSuccessOfAny(applied) == \E i \in 1..Len(applied) : applied[i].success

\* results['success'] of apply_changes_with_audit
OverallSuccess(applied) == \A i \in 1..Len(applied) : applied[i].success

\* a loop that stops at the first failed item
RemainingUntilFailure(items, record) ==
    IF record.success THEN Tail(items) ELSE <<>>

\* the `for` loops of apply_changes_with_audit go on to the next item
\* whatever the change record of this one says
Remaining(items, record) == Tail(items)

\* the approval check left out
ApprovalGateOpen(user_approval) == TRUE

\* The approval check that opens apply_changes_with_audit: TRUE when the
\* call goes on to apply the proposal, FALSE when it raises ValueError
ApprovalGate(user_approval) == user_approval

----------------------------------------------------------------------------
(* context/__init__.py *)

\* `config.max_context_size * 4  # Rough chars per token`
CharsPerToken == 4
\* `context[:self.max_context_size - 100]`
TruncationReserve == 100
\* len("\n\n[Context truncated due to size limits]")
NoticeLen == 40
\* The shortest rendering of a store that has a relevant entry: a section
\* header ("## Work Reflections"), a blank line and one formatted entry
\* with a content of one character.
MinRendering == 50

\* ContextBuilder.__init__: the character budget for MAX_CONTEXT_SIZE tokens
max_context_size(tokens) == tokens * CharsPerToken

\* len(s[:k]) for a string of n characters: a negative k counts from the end
SliceLen(n, k) ==
    IF k >= 0 THEN Min(n, k) ELSE IF n + k > 0 THEN n + k ELSE 0

\* A context text: the first `kept` characters of the rendering, followed
\* by the truncation notice when `notice` holds.
ContextText(kept, notice) == [kept |-> kept, notice |-> notice]
NoContext == ContextText(0, FALSE)
\* len(text)
TextLen(text) == text.kept + (IF text.notice THEN NoticeLen ELSE 0)

\* ContextBuilder._enforce_size_limits, on a rendering of n characters
enforce_size_limits(n, budget) ==
    IF n <= budget THEN ContextText(n, FALSE)
    ELSE ContextText(SliceLen(n, budget - TruncationReserve), TRUE)

\* ContextBuilder.build_context: formatted_context and context_size_chars
\* for a rendering of n characters
build_context(n, budget) ==
    LET final_context == enforce_size_limits(n, budget) IN
    [formatted_context |-> final_context,
     context_size_chars |-> TextLen(final_context)]

\* A text is a sequence of words separated by single spaces; no word of the
\* vocabulary is part of another, so `a in b` on strings is the occurrence
\* of a's words as consecutive words of b.
Contains(hay, needle) ==
    \E i \in 0..Len(hay) :
        /\ i + Len(needle) <= Len(hay)
        /\ \A k \in 1..Len(needle) : hay[i + k] = needle[k]

\* str.lower()
Lower(text) ==
    [i \in 1..Len(text) |-> IF text[i] = Ch("Plan") THEN Ch("plan") ELSE text[i]]

\* set(text.split()) and set(re.findall(r'\b\w+\b', text))
Words(text) == {text[i] : i \in 1..Len(text)} \ {SP, NL}

RECURSIVE Join(_)
\* ' '.join(tags)
Join(tags) ==
    IF tags = <<>> THEN <<>>
    ELSE IF Len(tags) = 1 THEN Head(tags)
    ELSE Head(tags) \o <<SP>> \o Join(Tail(tags))

\* entry.get('content', '') and entry.get('tags', []) of a line of telos.jsonl
ContentOf(e) == IF e.content = AbsentText THEN <<>> ELSE e.content
TagsOf(e) == IF "tags" \in DOMAIN e THEN e.tags ELSE <<>>

\* Scores are kept in units of 1/600, in which every weight is a whole
\* number: 1.0 is 600.
ScoreUnit == 600
\* `date_range_days: int = 30`
DateRangeDays == 30
\* `max(0, 0.1 * (30 - days_old) / 30)`
RecencyWindow == 30
recency_boost(days_old) ==
    IF days_old < RecencyWindow THEN 2 * (RecencyWindow - days_old) ELSE 0

\* `for tag in tags: if tag in query_lower or query_lower in tag`
TagMatches(tags, query_lower) ==
    \E i \in 1..Len(tags) :
        Contains(query_lower, Lower(tags[i])) \/ Contains(Lower(tags[i]), query_lower)

\* `len(matching_words) / len(query_words)` times the weight, capped at it
WordScore(content, query_lower, weight) ==
    LET matching_words == Words(query_lower) \cap Words(content) IN
    IF matching_words = {} THEN 0
    ELSE Min((Cardinality(matching_words) * weight)
                 \div Cardinality(Words(query_lower)), weight)

\* ContextBuilder._calculate_talaos_relevance, `now` being datetime.now()
calculate_talaos_relevance(entry, query_lower, now) ==
    LET content == Lower(ContentOf(entry)) IN
    Min((IF Contains(content, query_lower) THEN ScoreUnit ELSE 0)
        + (IF TagMatches(TagsOf(entry), query_lower) THEN 480 ELSE 0)
        + WordScore(content, query_lower, 300)
        + recency_boost(now - entry.timestamp), ScoreUnit)

\* type_boosts.get(entry_type, 0)
TypeBoost(entry_type) ==
    CASE entry_type \in {"reflection", "learning"} -> 60
      [] entry_type = "planning" -> 120
      [] entry_type = "goal_review" -> 180
      [] OTHER -> 0

\* ContextBuilder._calculate_journal_relevance
calculate_journal_relevance(entry, query_lower, now) ==
    LET content == Lower(entry.content) IN
    Min((IF Contains(content, query_lower) THEN ScoreUnit ELSE 0)
        + (IF TagMatches(entry.frontmatter.tags, query_lower) THEN 420 ELSE 0)
        + TypeBoost(entry.frontmatter.type)
        + WordScore(content, query_lower, 240)
        + recency_boost(now - entry.frontmatter.timestamp), ScoreUnit)

RECURSIVE InsertRanked(_, _)
\* x put behind every element of the ranked list that does not rank below it
InsertRanked(ranked, x) ==
    IF ranked = <<>> THEN <<x>>
    ELSE LET h == Head(ranked) IN
         IF \/ h.relevance > x.relevance
            \/ h.relevance = x.relevance /\ h.timestamp >= x.timestamp
         THEN <<h>> \o InsertRanked(Tail(ranked), x)
         ELSE <<x>> \o ranked

RECURSIVE SortRanked(_, _)
\* list.sort(key=(relevance, timestamp), reverse=True): stable
SortRanked(entries, ranked) ==
    IF entries = <<>> THEN ranked
    ELSE SortRanked(Tail(entries), InsertRanked(ranked, Head(entries)))

\* entries[:max_entries]
Top(entries, max_entries) == SubSeq(entries, 1, Min(Len(entries), max_entries))

\* an entry with its `_relevance`
Scored(entry, timestamp, relevance) ==
    [entry |-> entry, timestamp |-> timestamp, relevance |-> relevance]

\* ContextBuilder._find_relevant_talaos; cutoff_date is now - date_range_days
find_relevant_talaos(file, query, now, date_range_days, max_entries) ==
    LET all_entries == get_all_entries(file).entries
        recent == SelectSeq(all_entries,
                      LAMBDA e : ~(e.timestamp < now - date_range_days))
        scored == [i \in 1..Len(recent) |->
                      Scored(recent[i], recent[i].timestamp,
                             calculate_talaos_relevance(recent[i],
                                                        Lower(query), now))]
        relevant_entries == SelectSeq(scored, LAMBDA x : x.relevance > 0) IN
    Top(SortRanked(relevant_entries, <<>>), max_entries)

\* JournalManager.search_entries(query=.., date_from=..): the date filter
\* and the text search
search_entries_text(file, query, date_from) ==
    SelectSeq(journal_get_all_entries(file),
        LAMBDA e :
            /\ ~(e.frontmatter.timestamp < date_from)
            /\ \/ query = <<>>
               \/ Contains(Lower(e.content) \o <<SP>>
                               \o Lower(Join(e.frontmatter.tags)),
                           Lower(query)))

\* ContextBuilder._find_relevant_journal
find_relevant_journal(file, query, now, date_range_days, max_entries) ==
    LET entries == search_entries_text(file, query, now - date_range_days)
        scored == [i \in 1..Len(entries) |->
                      Scored(entries[i], entries[i].frontmatter.timestamp,
                             calculate_journal_relevance(entries[i],
                                                         Lower(query), now))] IN
    Top(SortRanked(scored, <<>>), max_entries)

WorkKeywords ==
    {"work", "professional", "career", "project", "meeting", "deadline",
     "business"}
PersonalKeywords ==
    {"personal", "family", "health", "home", "friends", "leisure", "hobby"}

\* `sum(1 for keyword in keywords if keyword in tag_text or keyword in content)`
KeywordScore(keywords, tags, content) ==
    LET text == Lower(Join(tags)) \o <<SP>> \o Lower(content) IN
    Cardinality(keywords \cap {text[i].c : i \in 1..Len(text)})

\* classify_entry of _separate_work_personal_context
classify_entry(tags, content) ==
    LET work_score == KeywordScore(WorkKeywords, tags, content)
        personal_score == KeywordScore(PersonalKeywords, tags, content) IN
    IF work_score > personal_score THEN "work"
    ELSE IF personal_score > work_score THEN "personal"
    ELSE "neutral"

\* a tie between the buckets sending the entry to the personal bucket
BalancedToWorkOnlyWhenFewer(work, personal) == Len(work) < Len(personal)

\* `if len(work_talaos) <= len(personal_talaos):`
BalancedToWork(work, personal) == Len(work) <= Len(personal)

RECURSIVE Route(_, _, _, _)
\* one of the two loops of _separate_work_personal_context over the
\* categories of the entries of a store, in order
Route(categories, entries, context_type, acc) ==
    IF entries = <<>> THEN acc
    ELSE LET to_work ==
                 \/ Head(categories) = "work"
                 \/ /\ Head(categories) = "neutral"
                    /\ \/ context_type = "work"
                       \/ /\ context_type /= "personal"
                          /\ BalancedToWork(acc.work, acc.personal) IN
         Route(Tail(categories), Tail(entries), context_type,
               IF to_work
               THEN [acc EXCEPT !.work = Append(@, Head(entries))]
               ELSE [acc EXCEPT !.personal = Append(@, Head(entries))])

\* the categories classify_entry gives the selected entries of each store
TalaosCategories(entries) ==
    [i \in 1..Len(entries) |->
        classify_entry(TagsOf(entries[i].entry), ContentOf(entries[i].entry))]
JournalCategories(entries) ==
    [i \in 1..Len(entries) |->
        classify_entry(entries[i].entry.frontmatter.tags, entries[i].entry.content)]

\* ContextBuilder._separate_work_personal_context
separate_work_personal_context(talaos_entries, journal_entries, context_type) ==
    LET none == [work |-> <<>>, personal |-> <<>>]
        t == Route(TalaosCategories(talaos_entries), talaos_entries,
                   context_type, none)
        j == Route(JournalCategories(journal_entries), journal_entries,
                   context_type, none) IN
    [work |-> [talaos |-> t.work, journal |-> j.work],
     personal |-> [talaos |-> t.personal, journal |-> j.personal]]

NoBuckets == [talaos |-> <<>>, journal |-> <<>>]

\* ContextBuilder.build_context: the entries selected and their buckets
build_context_entries(tfile, jfile, query, context_type, max_entries, date_range_days, now) ==
    LET talaos_entries == find_relevant_talaos(tfile, query, now,
                              date_range_days, max_entries)
        journal_entries == find_relevant_journal(jfile, query, now,
                               date_range_days, max_entries)
        sep == separate_work_personal_context(talaos_entries,
                   journal_entries, context_type) IN
    [selected |-> [talaos |-> talaos_entries, journal |-> journal_entries],
     work |-> sep.work, personal |-> sep.personal,
     total_entries |-> Len(talaos_entries) + Len(journal_entries),
     work_entries |-> Len(sep.work.talaos) + Len(sep.work.journal),
     personal_entries |-> Len(sep.personal.talaos) + Len(sep.personal.journal)]

----------------------------------------------------------------------------
(* ollama/client.py *)

\* What a POST to the generate endpoint meets: a response whose text is
\* JSON, a response whose text is not, requests.Timeout, or another
\* requests.RequestException (connection refused, HTTP error status).
BackendOutcomes == {"json", "prose", "timeout", "refused"}

\* OllamaClient.generate_text: the text, or the OllamaError it raises
generate_text(outcome) ==
    IF outcome \in {"timeout", "refused"}
    THEN [exc |-> "OllamaError", text |-> NONE]
    ELSE [exc |-> "none", text |-> outcome]

ExpectedFormats == {"text", "json", "yaml"}

\* OllamaClient.validate_structured_response on a text: "ok" or the
\* exception it raises
validate_structured_response(response, expected_format) ==
    IF expected_format = "json"
    THEN IF response = "json" THEN "ok" ELSE "OllamaError"
    ELSE IF expected_format = "yaml" THEN "OllamaError"
    ELSE "ok"

\* the body of the try of generate_with_validation: "ok" or the exception
Attempt(outcome, expected_format) ==
    LET raw_response == generate_text(outcome) IN
    IF raw_response.exc /= "none" THEN raw_response.exc
    ELSE validate_structured_response(raw_response.text, expected_format)

\* one attempt more than `range(max_retries + 1)` makes
MayRetryOnceMore(attempt, max_retries) == attempt <= max_retries

\* `if attempt < max_retries: continue`
MayRetry(attempt, max_retries) == attempt < max_retries

----------------------------------------------------------------------------
(* email_integration/processor.py *)

\* `self.max_emails = 50  # Maximum emails to process per run`
MaxEmailsPerRun == 50

\* email_ids[-self.max_emails:]
LastOf(ids, n) == SubSeq(ids, Len(ids) - Min(Len(ids), n) + 1, Len(ids))

\* EmailProcessor._is_email_processed
is_email_processed(file, message_id) ==
    \E i \in 1..Len(file) : file[i].message_id = message_id

\* EmailProcessor._mark_email_processed: one line appended
mark_email_processed(file, message_id) ==
    Append(file, [message_id |-> message_id, processor_version |-> "1.0"])

RECURSIVE MarkAll(_, _)
\* `for email_data in processed_emails: self._mark_email_processed(..)`
MarkAll(file, ids) ==
    IF ids = <<>> THEN file
    ELSE MarkAll(mark_email_processed(file, Head(ids)), Tail(ids))

\* EmailProcessor._generate_email_insights on a non-empty list: the
\* generate_text call meets `outcome`; every exception is caught inside and
\* answered with a news_brief that reports the failure
generate_email_insights(outcome) ==
    LET response == generate_text(outcome) IN
    IF response.exc /= "none"
    THEN [exc |-> "none", news_brief |-> "analysis failed"]
    ELSE IF response.text = "json"
    THEN [exc |-> "none", news_brief |-> "summary"]
    ELSE [exc |-> "none", news_brief |-> "format unclear"]

\* EmailProcessor.process_emails: `mailbox` is the message ids the search
\* returns, `connection` whether the IMAP session works ("ok") or raises
process_emails(file, mailbox, connection, outcome) ==
    LET failed == [file |-> file, success |-> FALSE, emails_processed |-> 0,
                   analysed |-> <<>>, generation |-> NONE,
                   news_brief |-> "", connection_status |-> "failed"]
        email_ids == LastOf(mailbox, MaxEmailsPerRun)
        processed_emails ==
            SelectSeq(email_ids, LAMBDA id : ~is_email_processed(file, id))
        insights == generate_email_insights(outcome) IN
    IF connection /= "ok" THEN failed
    ELSE IF processed_emails = <<>>
    THEN [failed EXCEPT !.connection_status = "disconnected"]
    ELSE IF insights.exc = "none"
    THEN [file |-> MarkAll(file, processed_emails), success |-> TRUE,
          emails_processed |-> Len(processed_emails),
          analysed |-> processed_emails, generation |-> outcome,
          news_brief |-> insights.news_brief,
          connection_status |-> "disconnected"]
    ELSE [failed EXCEPT !.connection_status = "disconnected",
                        !.analysed = processed_emails,
                        !.generation = outcome,
                        !.news_brief = "analysis failed"]

----------------------------------------------------------------------------
(* Calls *)

\* The call a step makes and what it returns.  Every step records all
\* fields; the ones a call does not have keep these values.
NoCall ==
    [op |-> "init", ret |-> NONE, id |-> NoId, content |-> NoneText,
     status |-> NONE, entry_type |-> NONE, tags |-> <<>>, mood |-> NONE,
     location |-> NONE, weather |-> NONE, approval |-> FALSE,
     success |-> FALSE, proposal |-> NoProposal, decoded |-> NoProposal,
     records |-> <<>>, budget |-> 0, rendered |-> 0, text |-> NoContext,
     size |-> 0, query |-> <<>>, context_type |-> NONE, max_entries |-> 0,
     date_range_days |-> 0,
     selected |-> NoBuckets, work |-> NoBuckets, personal |-> NoBuckets,
     total_entries |-> 0, work_entries |-> 0, personal_entries |-> 0,
     expected_format |-> NONE, max_retries |-> 0, attempt |-> 0,
     attempts |-> 0, outcomes |-> <<>>, emails_processed |-> 0,
     analysed |-> <<>>, generation |-> NONE, news_brief |-> ""]

NoRun ==
    [active |-> FALSE, approval |-> FALSE, proposal |-> NoProposal,
     talaos |-> <<>>,
     journal |-> <<>>, counter |-> 0, applied |-> <<>>]

Idle == ~run.active

\* The handler in progress: `handler` is "query" (handle_query) or "chat"
\* (InteractiveAssistant._handle_message), `pc` the input() it waits at,
\* `proposal` the intent it parsed, `answers` what the user typed for this
\* intent and `calls` how often it called apply_changes_with_audit with it.
NoCli ==
    [handler |-> "none", pc |-> "idle", dry_run |-> FALSE,
     proposal |-> NoProposal, answers |-> <<>>, calls |-> 0]

\* The generate_with_validation call in progress: `attempt` is the loop
\* variable, `outcomes` what each generate_text call of this call met.
NoGen ==
    [active |-> FALSE, expected_format |-> NONE, max_retries |-> 0,
     attempt |-> 0, outcomes |-> <<>>]

A == <<Ch("a")>>
Blank == <<SP>>

\* ids a caller may pass: the id of any line of the file, and one of no line
IdsIn(file) == {file[i].id : i \in 1..Len(file)}
MissingId == MakeId("goal", 0)
CallIds == IdsIn(telos) \cup {MissingId}

\* journal blocks written so far
Blocks(file) == Cardinality({i \in 1..Len(file) : file[i].c = "fm"})

\* time passes
Tick ==
    /\ clock' = clock + 1
    /\ last' = [NoCall EXCEPT !.op = "tick"]
    /\ UNCHANGED <<telos, journal, changes, run, llm, cli, gen, processed>>

\* add_goal with a content drawn from `contents`
CallAddGoal(contents) ==
    /\ Idle
    /\ \E content \in contents :
         LET r == add_goal(telos, content, clock, clock) IN
         /\ telos' = r.file
         /\ last' = [NoCall EXCEPT !.op = "add_goal", !.content = content,
                                   !.ret = r.ret, !.id = r.id]
    /\ UNCHANGED <<journal, changes, clock, run, llm, cli, gen, processed>>

\* add_goal when telos.jsonl cannot be opened for appending: the OSError of
\* open() in _append_entry leaves add_goal, unless validation raised first
CallAddGoalWriteFails(contents) ==
    /\ Idle
    /\ \E content \in contents :
         LET r == add_goal(telos, content, clock, clock) IN
         last' = [NoCall EXCEPT !.op = "add_goal", !.content = content,
                                !.ret = IF r.ret = "id" THEN "OSError"
                                        ELSE r.ret]
    /\ UNCHANGED <<telos, journal, changes, clock, run, llm, cli, gen, processed>>

\* add_task with a content drawn from `contents`
CallAddTask(contents) ==
    /\ Idle
    /\ \E content \in contents :
         LET r == add_task(telos, content, clock, clock) IN
         /\ telos' = r.file
         /\ last' = [NoCall EXCEPT !.op = "add_task", !.content = content,
                                   !.ret = r.ret, !.id = r.id]
    /\ UNCHANGED <<journal, changes, clock, run, llm, cli, gen, processed>>

\* update_status on an id of CallIds with a status drawn from `statuses`
CallUpdateStatus(statuses) ==
    /\ Idle
    /\ \E id \in CallIds, s \in statuses :
         LET r == update_status(telos, id, s, clock, clock) IN
         /\ telos' = r.file
         /\ last' = [NoCall EXCEPT !.op = "update_status", !.id = id,
                                   !.status = s, !.ret = r.ret]
    /\ UNCHANGED <<journal, changes, clock, run, llm, cli, gen, processed>>

\* add_entry with arguments drawn from `inputs`
CallAddEntry(inputs) ==
    /\ Idle
    /\ \E e \in inputs :
         LET r == add_entry(journal, e.content, e.type, e.tags, e.mood,
                            e.location, e.weather, clock) IN
         /\ journal' = r.file
         /\ last' = [NoCall EXCEPT !.op = "add_entry", !.content = e.content,
                                   !.entry_type = e.type, !.tags = e.tags,
                                   !.mood = e.mood, !.location = e.location,
                                   !.weather = e.weather, !.ret = r.ret]
    /\ UNCHANGED <<telos, changes, clock, run, llm, cli, gen, processed>>

\* the first lines of apply_changes_with_audit
BeginApply(proposal, user_approval) ==
    /\ IF ~ApprovalGate(user_approval)
       THEN /\ run' = run
            /\ last' = [NoCall EXCEPT !.op = "apply_changes_with_audit",
                                      !.proposal = proposal,
                                      !.approval = user_approval,
                                      !.ret = "ValueError"]
       ELSE /\ run' = [active |-> TRUE, approval |-> user_approval,
                       proposal |-> proposal,
                       talaos |-> proposal.talaos_proposals,
                       journal |-> proposal.journal_proposals,
                       counter |-> 0, applied |-> <<>>]
            /\ last' = [NoCall EXCEPT !.op = "apply_begin",
                                      !.proposal = proposal,
                                      !.approval = user_approval]
    /\ UNCHANGED <<telos, journal, changes, clock, llm, gen, processed>>

\* apply_changes_with_audit called with one of `proposals`
CallApply(proposals) ==
    /\ Idle
    /\ \E proposal \in proposals, user_approval \in BOOLEAN :
         BeginApply(proposal, user_approval)
    /\ UNCHANGED cli

\* one turn of the loop over proposal.talaos_proposals
ApplyTalaosItem ==
    /\ run.active /\ run.talaos /= <<>>
    /\ LET n == run.counter + 1
           r == apply_talaos_change(telos, Head(run.talaos),
                                    run.proposal.proposal_id, n, clock) IN
       /\ telos' = r.file
       /\ run' = [run EXCEPT !.talaos = Remaining(@, r.record), !.counter = n,
                             !.applied = Append(@, r.record)]
       /\ last' = [NoCall EXCEPT !.op = "apply_talaos_change",
                                 !.proposal = run.proposal,
                                 !.approval = run.approval,
                                 !.records = <<r.record>>]
    /\ UNCHANGED <<journal, changes, clock, llm, cli, gen, processed>>

\* one turn of the loop over proposal.journal_proposals
ApplyJournalItem ==
    /\ run.active /\ run.talaos = <<>> /\ run.journal /= <<>>
    /\ LET n == run.counter + 1
           r == apply_journal_change(journal, Head(run.journal),
                                     run.proposal.proposal_id, n, clock) IN
       /\ journal' = r.file
       /\ run' = [run EXCEPT !.journal = Remaining(@, r.record), !.counter = n,
                             !.applied = Append(@, r.record)]
       /\ last' = [NoCall EXCEPT !.op = "apply_journal_change",
                                 !.proposal = run.proposal,
                                 !.approval = run.approval,
                                 !.records = <<r.record>>]
    /\ UNCHANGED <<telos, changes, clock, llm, cli, gen, processed>>

\* the end of apply_changes_with_audit: the failure check, the audit
\* trail, the return
ApplyFinish ==
    /\ run.active /\ run.talaos = <<>> /\ run.journal = <<>>
    /\ changes' = write_audit_records(changes, run.applied)
    /\ last' = [NoCall EXCEPT !.op = "apply_changes_with_audit",
                              !.proposal = run.proposal,
                              !.approval = run.approval,
                              !.ret = "results",
                              !.success = OverallSuccess(run.applied),
                              !.records = run.applied]
    /\ run' = NoRun
    /\ UNCHANGED <<telos, journal, clock, llm, cli, gen, processed>>

\* the end of apply_changes_with_audit when changes.jsonl cannot be written
\* for some of the records
ApplyFinishWriteFails ==
    /\ run.active /\ run.talaos = <<>> /\ run.journal = <<>>
    /\ \E failed \in SUBSET (1..Len(run.applied)) \ {{}} :
         changes' = write_audit_records_failing(changes, run.applied, 1, failed)
    /\ last' = [NoCall EXCEPT !.op = "apply_changes_with_audit",
                              !.proposal = run.proposal,
                              !.approval = run.approval,
                              !.ret = "results",
                              !.success = OverallSuccess(run.applied),
                              !.records = run.applied]
    /\ run' = NoRun
    /\ UNCHANGED <<telos, journal, clock, llm, cli, gen, processed>>

\* `proposal.talaos_proposals or proposal.journal_proposals`
HasItems(proposal) ==
    proposal.talaos_proposals /= <<>> \/ proposal.journal_proposals /= <<>>

\* what the user may type at an input(), stripped and lowercased
Answers == {"yes", "no"}

\* `approval = input().strip().lower()` and the `if approval in ['y',
\* 'yes']` that follows: apply_changes_with_audit(proposal,
\* user_approval=True) or the cancellation message; the handler goes on
\* at next_pc
AskAndApply(next_pc) ==
    \E answer \in Answers :
        IF answer = "yes"
        THEN /\ BeginApply(cli.proposal, TRUE)
             /\ cli' = [cli EXCEPT !.pc = next_pc,
                                   !.answers = Append(@, answer),
                                   !.calls = @ + 1]
        ELSE /\ cli' = [cli EXCEPT !.pc = next_pc,
                                   !.answers = Append(@, answer)]
             /\ last' = [NoCall EXCEPT !.op = "input"]
             /\ UNCHANGED <<telos, journal, changes, clock, run, llm, gen, processed>>

\* handle_query up to its first input(): the mock response is one of
\* `outputs`; an exception of the parser ends the handler
HandleQuery(outputs) ==
    /\ Idle /\ cli.pc = "idle"
    /\ \E out \in outputs, dry_run \in BOOLEAN :
         LET r == parse_llm_output(out)
             analysis == out.fence /= "none" /\ ~HasItems(r.proposal)
             pc == IF r.ret /= "proposal" \/ dry_run THEN "done"
                   ELSE IF ~analysis /\ HasItems(r.proposal) THEN "ask1"
                   ELSE "ask2" IN
         /\ cli' = [handler |-> "query", pc |-> pc, dry_run |-> dry_run,
                    proposal |-> r.proposal, answers |-> <<>>, calls |-> 0]
         /\ last' = [NoCall EXCEPT !.op = "parse_llm_output", !.ret = r.ret,
                                   !.proposal = r.proposal,
                                   !.decoded = r.decoded]
    /\ UNCHANGED <<telos, journal, changes, clock, run, llm, gen, processed>>

\* the input() inside the "normal proposal flow" branch of handle_query
HandleQueryFirstAnswer ==
    /\ Idle /\ cli.handler = "query" /\ cli.pc = "ask1"
    /\ AskAndApply("ask2")

\* the input() under the `if not args.dry_run:` that ends handle_query
HandleQuerySecondAnswer ==
    /\ Idle /\ cli.handler = "query" /\ cli.pc = "ask2"
    /\ AskAndApply("done")

\* _handle_message up to its input(): a response without ```json is
\* printed and not parsed
HandleMessage(outputs) ==
    /\ Idle /\ cli.pc = "idle"
    /\ \E out \in outputs, dry_run \in BOOLEAN :
         IF out.fence = "none"
         THEN /\ cli' = [NoCli EXCEPT !.handler = "chat", !.pc = "done",
                                      !.dry_run = dry_run]
              /\ last' = [NoCall EXCEPT !.op = "print"]
         ELSE LET r == parse_llm_output(out)
                  pc == IF r.ret = "proposal" /\ HasItems(r.proposal)
                           /\ ~dry_run
                        THEN "ask" ELSE "done" IN
              /\ cli' = [handler |-> "chat", pc |-> pc, dry_run |-> dry_run,
                         proposal |-> r.proposal, answers |-> <<>>,
                         calls |-> 0]
              /\ last' = [NoCall EXCEPT !.op = "parse_llm_output",
                                        !.ret = r.ret,
                                        !.proposal = r.proposal,
                                        !.decoded = r.decoded]
    /\ UNCHANGED <<telos, journal, changes, clock, run, llm, gen, processed>>

\* the input() of _handle_message
HandleMessageAnswer ==
    /\ Idle /\ cli.handler = "chat" /\ cli.pc = "ask"
    /\ AskAndApply("done")

\* the handler returns
HandlerReturn ==
    /\ Idle /\ cli.pc = "done"
    /\ cli' = NoCli
    /\ last' = [NoCall EXCEPT !.op = "return"]
    /\ UNCHANGED <<telos, journal, changes, clock, run, llm, gen, processed>>

\* generate_with_validation(prompt, expected_format, max_retries=..) up to
\* its first generate_text call
CallGenerateWithValidation(formats, retries) ==
    /\ ~gen.active
    /\ \E f \in formats, m \in retries :
         /\ gen' = [active |-> TRUE, expected_format |-> f, max_retries |-> m,
                    attempt |-> 0, outcomes |-> <<>>]
         /\ last' = [NoCall EXCEPT !.op = "generate_begin",
                                   !.expected_format = f, !.max_retries = m]
    /\ UNCHANGED <<telos, journal, changes, clock, run, llm, cli, processed>>

\* one turn of `for attempt in range(max_retries + 1)`: the generate_text
\* call meets one of `outcomes`, and the loop returns or goes on
GenerateAttempt(outcomes) ==
    /\ gen.active
    /\ \E o \in outcomes :
         LET r == Attempt(o, gen.expected_format)
             met == Append(gen.outcomes, o)
             return == [NoCall EXCEPT !.op = "generate_with_validation",
                                      !.ret = "results",
                                      !.expected_format = gen.expected_format,
                                      !.max_retries = gen.max_retries,
                                      !.outcomes = met] IN
         IF r = "ok"
         THEN /\ last' = [return EXCEPT !.success = TRUE,
                                        !.attempt = gen.attempt + 1]
              /\ gen' = NoGen
         ELSE IF MayRetry(gen.attempt, gen.max_retries)
         THEN /\ last' = [NoCall EXCEPT !.op = "generate_text", !.ret = r]
              /\ gen' = [gen EXCEPT !.attempt = @ + 1, !.outcomes = met]
         ELSE /\ last' = [return EXCEPT !.success = FALSE,
                                        !.attempts = gen.max_retries + 1]
              /\ gen' = NoGen
    /\ UNCHANGED <<telos, journal, changes, clock, run, llm, cli, processed>>

\* process_emails on one of `mailboxes`, the IMAP session and the
\* generation backend behaving as one of `connections` and `outcomes`
CallProcessEmails(mailboxes, connections, outcomes) ==
    /\ \E mailbox \in mailboxes, c \in connections, o \in outcomes :
         LET r == process_emails(processed, mailbox, c, o) IN
         /\ processed' = r.file
         /\ last' = [NoCall EXCEPT !.op = "process_emails",
                                   !.ret = r.connection_status,
                                   !.success = r.success,
                                   !.emails_processed = r.emails_processed,
                                   !.analysed = r.analysed,
                                   !.generation = r.generation,
                                   !.news_brief = r.news_brief]
    /\ UNCHANGED <<telos, journal, changes, clock, run, llm, cli, gen>>

\* build_context with MAX_CONTEXT_SIZE one of `tokens`, on a store whose
\* relevant entries render to one of `renderings` characters
CallBuildContext(tokens, renderings) ==
    /\ Idle
    /\ \E t \in tokens, n \in renderings :
         LET budget == max_context_size(t)
             r == build_context(n, budget) IN
         last' = [NoCall EXCEPT !.op = "build_context", !.budget = budget,
                                !.rendered = n,
                                !.text = r.formatted_context,
                                !.size = r.context_size_chars]
    /\ UNCHANGED <<telos, journal, changes, clock, run, llm, cli, gen, processed>>

\* build_context(query, context_type, max_entries, date_range_days) on the
\* two stores, the clock giving datetime.now() in days; the rendering of the
\* entries is the subject of CallBuildContext
CallBuildContextOn(queries, context_types, limits, ranges) ==
    /\ Idle
    /\ \E q \in queries, ct \in context_types, m \in limits, d \in ranges :
         LET r == build_context_entries(telos, journal, q, ct, m, d, clock) IN
         last' = [NoCall EXCEPT !.op = "build_context", !.query = q,
                                !.context_type = ct, !.max_entries = m,
                                !.date_range_days = d,
                                !.selected = r.selected, !.work = r.work,
                                !.personal = r.personal,
                                !.total_entries = r.total_entries,
                                !.work_entries = r.work_entries,
                                !.personal_entries = r.personal_entries]
    /\ UNCHANGED <<telos, journal, changes, clock, run, llm, cli, gen, processed>>

\* parse_llm_output on the output received, one of `outputs`
CallParse(outputs) ==
    /\ Idle
    /\ llm \in outputs
    /\ LET r == parse_llm_output(llm) IN
         last' = [NoCall EXCEPT !.op = "parse_llm_output", !.ret = r.ret,
                                !.proposal = r.proposal,
                                !.decoded = r.decoded]
    /\ llm' = NoOutput
    /\ UNCHANGED <<telos, journal, changes, clock, run, cli, gen, processed>>

----------------------------------------------------------------------------
(* The store and the mutation engine *)

EntryArgs(content, type, tags, mood, location, weather) ==
    [content |-> content, type |-> type, tags |-> tags, mood |-> mood,
     location |-> location, weather |-> weather]

SomeEntries ==
    {EntryArgs(A, "reflection", <<>>, NONE, NONE, NONE),
     EntryArgs(Blank, "reflection", <<>>, NONE, NONE, NONE)}

\* proposals handed to apply_changes_with_audit
SomeProposals ==
    LET firstId == IF telos = <<>> THEN MissingId ELSE telos[1].id IN
    {ChangeProposal("p1",
         <<TelosProposal("add_goal", A, NoId, NoId, NONE, NONE)>>,
         <<JournalProposal("add_entry", A, "reflection", <<>>, NONE, NONE, NONE)>>,
         8),
     ChangeProposal("p2",
         <<TelosProposal("update_status", NoneText, MissingId, NoId,
                         "completed", NONE),
           TelosProposal("add_task", A, NoId, NoId, NONE, NONE)>>,
         <<>>, 8),
     ChangeProposal("p3",
         <<TelosProposal("update_status", NoneText, firstId, NoId,
                         "completed", NONE)>>,
         <<>>, 8),
     ChangeProposal("p4",
         <<TelosProposal("add_goal", A, NoId, NoId, NONE, NONE)>>,
         <<JournalProposal("add_entry", A, "diary", <<>>, NONE, NONE, NONE)>>,
         8)}

\* proposals that fit the bounds of the model
Fits(proposal) ==
    /\ Len(telos) + Len(proposal.talaos_proposals) <= MaxLines
    /\ Blocks(journal) + Len(proposal.journal_proposals) <= MaxJournal
    /\ Len(changes) + Len(proposal.talaos_proposals)
           + Len(proposal.journal_proposals) <= MaxChanges

Init ==
    /\ telos = <<>>
    /\ journal = <<>>
    /\ changes = <<>>
    /\ clock = 1
    /\ last = NoCall
    /\ run = NoRun
    /\ llm = NoOutput
    /\ cli = NoCli
    /\ gen = NoGen
    /\ processed = <<>>

Next ==
    \/ (clock < MaxClock /\ Tick)
    \/ (Len(telos) < MaxLines /\ CallAddGoal({A}))
    \/ (Len(telos) < MaxLines /\ CallAddTask({A}))
    \/ (Len(telos) < MaxLines /\ CallUpdateStatus({"completed", "bogus"}))
    \/ (Blocks(journal) < MaxJournal /\ CallAddEntry(SomeEntries))
    \/ CallApply({p \in SomeProposals : Fits(p)})
    \/ ApplyTalaosItem
    \/ ApplyJournalItem
    \/ ApplyFinish

Spec == Init /\ [][Next]_vars

\* the stores and the mutation engine when appends to telos.jsonl and
\* changes.jsonl may fail
NextWriteFails ==
    \/ Next
    \/ CallAddGoalWriteFails({A})
    \/ ApplyFinishWriteFails

SpecWriteFails == Init /\ [][NextWriteFails]_vars

----------------------------------------------------------------------------
(* The structured store alone *)

TelosContents == {<<>>, A}
TelosStatuses == {"active", "pending", "completed", "bogus"}

NextTelos ==
    \/ (clock < MaxClock /\ Tick)
    \/ (Len(telos) < MaxTelos /\ CallAddGoal(TelosContents))
    \/ (Len(telos) < MaxTelos /\ CallAddTask(TelosContents))
    \/ (Len(telos) < MaxTelos /\ CallUpdateStatus(TelosStatuses))

SpecTelos == Init /\ [][NextTelos]_vars

----------------------------------------------------------------------------
(* The structured store with damaged lines in its file *)

\* Lines that are not records of the store, as get_all_entries may meet
\* them: text that is not JSON, JSON that is not an object, an object
\* with no "type" key, a record with a timestamp that does not parse.
DamagedLines ==
    {Line("notjson", ABSENT, AbsentId, AbsentTs, AbsentText, ABSENT,
          AbsentId, ABSENT, ABSENT, ABSENT),
     Line("nonobject", ABSENT, AbsentId, AbsentTs, AbsentText, ABSENT,
          AbsentId, ABSENT, ABSENT, ABSENT),
     Line("object", ABSENT, MakeId("goal", 0), 1, A, "active",
          AbsentId, ABSENT, ABSENT, ABSENT),
     Line("object", "goal", MakeId("goal", 0), BadTs, A, "active",
          AbsentId, ABSENT, ABSENT, ABSENT)}

Damaged(line) == line \in DamagedLines

DamagedCount(file) == Cardinality({i \in 1..Len(file) : Damaged(file[i])})

\* one line of the file is damaged outside the program (a line is added
\* by hand, or a write is cut short)
Damage ==
    /\ Idle
    /\ \E line \in DamagedLines : telos' = AppendLine(telos, line)
    /\ last' = [NoCall EXCEPT !.op = "damage"]
    /\ UNCHANGED <<journal, changes, clock, run, llm, cli, gen, processed>>

NextDamaged ==
    \/ (clock < MaxClock /\ Tick)
    \/ (Len(telos) < MaxTelos /\ CallAddGoal({A}))
    \/ (Len(telos) < MaxTelos /\ CallAddTask({A}))
    \/ (Len(telos) < MaxTelos /\ CallUpdateStatus({"completed"}))
    \/ (Len(telos) < MaxTelos /\ DamagedCount(telos) < MaxCorrupt /\ Damage)

SpecDamaged == Init /\ [][NextDamaged]_vars

----------------------------------------------------------------------------
(* The journal alone *)

JournalContents ==
    LET a == Ch("a") IN
    {<<a>>, <<a, SP, a>>, <<SP, a>>, <<a, NL>>, <<EQ50, NL, NL, a>>,
     <<a, NL, EQ50, NL, NL, a>>, <<SP>>, <<>>}

JournalExtras ==
    {<<NONE, NONE, NONE>>, <<"calm", "home", "rain">>, <<"", NONE, NONE>>}

AllEntries ==
    {EntryArgs(c, t, g, x[1], x[2], x[3]) :
        c \in JournalContents, t \in {"reflection", "diary"},
        g \in {<<>>, <<"t">>}, x \in JournalExtras}

NextJournal ==
    \/ (clock < MaxClock /\ Tick)
    \/ (Blocks(journal) < MaxEntries /\ CallAddEntry(AllEntries))

SpecJournal == Init /\ [][NextJournal]_vars

----------------------------------------------------------------------------
(* The parser alone, on a store that holds records *)

GoalOne == MakeId("goal", 1)
TaskOne == MakeId("task", 1)

\* decoded items of talaos_proposals
TalaosItems ==
    {JsonItem("ok", TelosProposal("add_goal", A, NoId, NoId, NONE, NONE)),
     JsonItem("ok", TelosProposal("add_task", A, NoId, NoId, NONE, "high")),
     JsonItem("ok", TelosProposal("add_goal", Blank, NoId, NoId, NONE, NONE)),
     JsonItem("ok", TelosProposal("add_goal", <<>>, NoId, NoId, NONE, NONE)),
     JsonItem("ok", TelosProposal("add_task", NoneText, NoId, NoId, NONE, NONE)),
     JsonItem("ok", TelosProposal("add_goal", NumberContent, NoId, NoId, NONE,
                                  NONE)),
     JsonItem("ok", TelosProposal("add_task", A, NoId, NoId, NONE, "urgent")),
     JsonItem("ok", TelosProposal("delete_goal", A, GoalOne, NoId, NONE, NONE)),
     JsonItem("ok", TelosProposal("update_status", NoneText, GoalOne, NoId,
                                  "completed", NONE)),
     JsonItem("ok", TelosProposal("update_status", NoneText, NoId, TaskOne,
                                  "in_progress", NONE)),
     JsonItem("ok", TelosProposal("update_status", NoneText, GoalOne, NoId,
                                  "in_progress", NONE)),
     JsonItem("ok", TelosProposal("update_status", NoneText, NoId, TaskOne,
                                  "active", NONE)),
     JsonItem("ok", TelosProposal("update_status", NoneText, NoId, NoId,
                                  "completed", NONE)),
     JsonItem("ok", TelosProposal("update_status", NoneText, GoalOne, NoId,
                                  NONE, NONE)),
     JsonItem("unknown_key",
              TelosProposal("add_goal", A, NoId, NoId, NONE, NONE)),
     JsonItem("no_action",
              TelosProposal(NONE, A, NoId, NoId, NONE, NONE))}

\* decoded items of journal_proposals
JournalItems ==
    {JsonItem("ok", JournalProposal("add_entry", A, "reflection", <<>>,
                                    NONE, NONE, NONE)),
     JsonItem("ok", JournalProposal("add_entry", A, "diary", <<>>,
                                    NONE, NONE, NONE)),
     JsonItem("ok", JournalProposal("add_entry", Blank, "learning", <<>>,
                                    NONE, NONE, NONE)),
     JsonItem("ok", JournalProposal("delete_entry", A, "reflection", <<>>,
                                    NONE, NONE, NONE)),
     JsonItem("unknown_key", JournalProposal("add_entry", A, "reflection",
                                             <<>>, NONE, NONE, NONE))}

\* sequences over S of length at most n
RECURSIVE SeqsUpTo(_, _)
SeqsUpTo(S, n) ==
    IF n = 0 THEN {<<>>}
    ELSE LET shorter == SeqsUpTo(S, n - 1) IN
         shorter \cup {Append(q, x) : q \in shorter, x \in S}

Number(v) == [kind |-> "number", v |-> v]

Envelopes ==
    {Envelope("object", "p", Number(8), t, <<>>) :
        t \in SeqsUpTo(TalaosItems, MaxItems)}
    \cup
    {Envelope("object", "p", Number(8), t, <<j>>) :
        t \in SeqsUpTo(TalaosItems, 1), j \in JournalItems}
    \cup
    {Envelope(sh, NONE, c, <<>>, <<>>) :
        sh \in {"object", "list"},
        c \in {Number(15), Number(-3), Number(NaN), [kind |-> "absent", v |-> 0],
               [kind |-> "text", v |-> 0]}}


Texts ==
    {TextView(g, k, r) :
        g \in SeqsUpTo({A, Blank}, 3), k \in BOOLEAN, r \in SeqsUpTo({A, Blank}, 2)}

LlmOutputs ==
    {LlmOutput("json", e, "undecodable", NoEnvelope, NoText) : e \in Envelopes}
    \cup {LlmOutput("none", NoEnvelope, "json", e, NoText) : e \in Envelopes}
    \cup {LlmOutput(f, NoEnvelope, "undecodable", NoEnvelope, x) :
             f \in {"none", "undecodable"}, x \in Texts}

\* the store after add_goal, add_entry and an approved proposal, and a
\* model output of `outputs` waiting to be parsed
ParseInit(outputs) ==
    /\ telos = add_goal(<<>>, A, 1, 1).file
    /\ journal = add_entry(<<>>, A, "reflection", <<>>, NONE, NONE, NONE, 1).file
    /\ changes = write_audit_records(<<>>,
           <<apply_talaos_change(<<>>,
                 TelosProposal("add_goal", A, NoId, NoId, NONE, NONE),
                 "p", 1, 1).record>>)
    /\ clock = 1
    /\ last = NoCall
    /\ run = NoRun
    /\ llm \in outputs
    /\ cli = NoCli
    /\ gen = NoGen
    /\ processed = <<>>

InitParse == ParseInit(LlmOutputs)

NextParse == CallParse(LlmOutputs)

SpecParse == InitParse /\ [][NextParse]_vars

----------------------------------------------------------------------------
(* The query and chat handlers *)

\* responses: a fenced proposal of two items, a fenced analysis without
\* items, a fenced list, and a text that suggests a goal
CliOutputs ==
    {LlmOutput("json",
               Envelope("object", "p", Number(8),
                        <<JsonItem("ok", TelosProposal("add_goal", A, NoId,
                                                       NoId, NONE, NONE))>>,
                        <<JsonItem("ok", JournalProposal("add_entry", A,
                                       "reflection", <<>>, NONE, NONE, NONE))>>),
               "undecodable", NoEnvelope, NoText),
     LlmOutput("json", Envelope("object", "p", Number(8), <<>>, <<>>),
               "undecodable", NoEnvelope, NoText),
     LlmOutput("json", Envelope("list", NONE, Number(8), <<>>, <<>>),
               "undecodable", NoEnvelope, NoText),
     LlmOutput("none", NoEnvelope, "undecodable", NoEnvelope,
               TextView(<<A>>, FALSE, <<>>))}

NextCli ==
    \/ (clock < MaxClock /\ Tick)
    \/ (Len(telos) + 2 <= MaxTelos /\ Blocks(journal) < MaxJournal
           /\ HandleQuery(CliOutputs))
    \/ HandleQueryFirstAnswer
    \/ HandleQuerySecondAnswer
    \/ (Len(telos) + 2 <= MaxTelos /\ Blocks(journal) < MaxJournal
           /\ HandleMessage(CliOutputs))
    \/ HandleMessageAnswer
    \/ HandlerReturn
    \/ ApplyTalaosItem
    \/ ApplyJournalItem
    \/ ApplyFinish

SpecCli == Init /\ [][NextCli]_vars

----------------------------------------------------------------------------
(* The parser on outputs that more than one strategy could read *)

\* envelopes that carry `id` as their proposal_id
StrategyEnvelopes(id) ==
    LET items ==
          {JsonItem("ok", TelosProposal("add_goal", A, NoId, NoId, NONE, NONE)),
           JsonItem("ok", TelosProposal("add_goal", Blank, NoId, NoId, NONE,
                                        NONE)),
           JsonItem("unknown_key",
                    TelosProposal("add_goal", A, NoId, NoId, NONE, NONE))} IN
    {Envelope(sh, id, c, t, <<>>) :
        sh \in {"object", "list"},
        c \in {Number(8), [kind |-> "text", v |-> 0]},
        t \in SeqsUpTo(items, MaxItems)}

\* texts the extractor finds a valid suggestion in
StrategyTexts ==
    {TextView(<<A>>, FALSE, <<>>), TextView(<<A>>, TRUE, <<A>>)}

\* every output holds a suggestion in its text; a fenced block that
\* decodes is named "fenced", a whole output that decodes "whole"
StrategyOutputs ==
    {LlmOutput("json", e, "undecodable", NoEnvelope, x) :
        e \in StrategyEnvelopes("fenced"), x \in StrategyTexts}
    \cup {LlmOutput("none", NoEnvelope, "json", e, x) :
             e \in StrategyEnvelopes("whole"), x \in StrategyTexts}
    \cup {LlmOutput(f, NoEnvelope, "undecodable", NoEnvelope, x) :
             f \in {"none", "undecodable"}, x \in StrategyTexts}

NextStrategy == CallParse(StrategyOutputs)

SpecStrategy == ParseInit(StrategyOutputs) /\ [][NextStrategy]_vars

----------------------------------------------------------------------------
(* Status updates applied from proposals *)

\* proposals whose update_status item names the first record of the store
\* in its goal_id or in its task_id field
KindProposals ==
    LET firstId == IF telos = <<>> THEN MissingId ELSE telos[1].id IN
    {ChangeProposal("k1",
         <<TelosProposal("update_status", NoneText, firstId, NoId,
                         "active", NONE)>>,
         <<>>, 8),
     ChangeProposal("k2",
         <<TelosProposal("update_status", NoneText, NoId, firstId,
                         "in_progress", NONE)>>,
         <<>>, 8),
     ChangeProposal("k3",
         <<TelosProposal("update_status", NoneText, firstId, NoId,
                         "completed", NONE)>>,
         <<JournalProposal("add_entry", A, "reflection", <<>>, NONE, NONE, NONE)>>,
         8)}

NextKinds ==
    \/ (clock < MaxClock /\ Tick)
    \/ (Len(telos) < MaxLines /\ CallAddGoal({A}))
    \/ (Len(telos) < MaxLines /\ CallAddTask({A}))
    \/ CallApply({p \in KindProposals : Fits(p)})
    \/ ApplyTalaosItem
    \/ ApplyJournalItem
    \/ ApplyFinish

SpecKinds == Init /\ [][NextKinds]_vars

----------------------------------------------------------------------------
(* The generation client *)

NextClient ==
    \/ CallGenerateWithValidation(ExpectedFormats, 0..MaxRetries)
    \/ GenerateAttempt(BackendOutcomes)

SpecClient == Init /\ [][NextClient]_vars

\* every generate_text call returns or raises (the request carries a
\* timeout), so the loop of a call in progress takes its next turn
SpecClientFair == SpecClient /\ WF_vars(GenerateAttempt(BackendOutcomes))

----------------------------------------------------------------------------
(* The email processor *)

MessageIds == {"m1", "m2", "m3"}

\* what the IMAP search returns: up to MaxMailbox messages, each with its
\* own Message-ID
Mailboxes ==
    {m \in SeqsUpTo(MessageIds, MaxMailbox) :
        \A i, j \in 1..Len(m) : m[i] = m[j] => i = j}

NextEmail == CallProcessEmails(Mailboxes, {"ok", "raises"}, BackendOutcomes)

SpecEmail == Init /\ [][NextEmail]_vars

----------------------------------------------------------------------------
(* The context builder: which entries it selects *)

\* the day build_context runs, in days since the first entry was written
Today == 40

\* the words of the entries and queries
PlanTrip == <<Ch("plan"), SP, Ch("trip")>>
TripPlan == <<Ch("trip"), SP, Ch("plan")>>
Roof == <<Ch("roof")>>
WorkPlan == <<Ch("work"), SP, Ch("plan")>>

\* a line of telos.jsonl written with tags=[..]
Tagged(line, tags) ==
    [f \in DOMAIN line \cup {"tags"} |-> IF f = "tags" THEN tags ELSE line[f]]

\* how many days ago the oldest entry of a store of several entries was
\* written: before the date range, at its start, or inside it
FirstAges == {40, 30, 10}

\* the day entry i of n was written: the last one today, the ones before
\* it 5 days apart, the first one first_age days ago
DayOf(i, n, first_age) ==
    IF i = 1 /\ n > 1 THEN Today - first_age ELSE Today - 5 * (n - i)

\* what a line of the structured store is: a goal or a task (with its
\* content and tags) or the status update of the first goal
TelosKinds ==
    {<<"goal", PlanTrip, <<>>>>, <<"goal", TripPlan, <<>>>>,
     <<"goal", Roof, <<<<Ch("home")>>>>>>, <<"task", WorkPlan, <<>>>>,
     <<"status_update", <<>>, <<>>>>}

\* the line add_goal, add_task or update_status wrote on day t
TelosLineOf(kind, t, first) ==
    IF kind[1] = "goal"
    THEN Tagged(Goal(MakeId("goal", t), t, kind[2]), kind[3])
    ELSE IF kind[1] = "task"
    THEN Tagged(Task(MakeId("task", t), t, kind[2]), kind[3])
    ELSE StatusUpdate(MakeUpdateId(MakeId("goal", first), t), t,
                      MakeId("goal", first), "active", "completed", "goal")

\* structured stores of up to MaxSelect lines, a status update never first
\* and only when the first line is a goal
TelosFiles ==
    {[i \in 1..Len(ks) |-> TelosLineOf(ks[i], DayOf(i, Len(ks), a), DayOf(1, Len(ks), a))] :
        ks \in {k \in SeqsUpTo(TelosKinds, MaxSelect) :
                  \A i \in 1..Len(k) :
                      k[i][1] = "status_update" => (i > 1 /\ k[1][1] = "goal")},
        a \in FirstAges}

\* journal entries: type, content, tags
JournalKinds ==
    {<<"reflection", PlanTrip, <<>>>>, <<"gratitude", TripPlan, <<>>>>,
     <<"planning", PlanTrip, <<<<Ch("work")>>>>>>}

RECURSIVE JournalFileOf(_, _, _, _)
\* the journal after add_entry of each of the entries ks[i..], on their days
JournalFileOf(ks, i, first_age, file) ==
    IF i > Len(ks) THEN file
    ELSE JournalFileOf(ks, i + 1, first_age,
             add_entry(file, ks[i][2], ks[i][1], ks[i][3], NONE, NONE, NONE,
                       DayOf(i, Len(ks), first_age)).file)

JournalFiles ==
    {JournalFileOf(ks, 1, a, <<>>) : ks \in SeqsUpTo(JournalKinds, MaxSelect), a \in FirstAges}

Queries == {PlanTrip, <<Ch("Plan")>>}
ContextTypes == {"balanced", "work", "personal"}
\* `max_entries: int = 10`, and a limit of one entry
EntryLimits == {1, 10}

\* a store with one matching entry written today
OneGoal == <<TelosLineOf(<<"goal", PlanTrip, <<>>>>, Today, Today)>>
OneEntry == JournalFileOf(<<<<"reflection", PlanTrip, <<>>>>>>, 1, 10, <<>>)

InitSelect ==
    /\ \/ telos \in TelosFiles /\ journal = OneEntry
       \/ telos = OneGoal /\ journal \in JournalFiles
    /\ changes = <<>>
    /\ clock = Today
    /\ last = NoCall
    /\ run = NoRun
    /\ llm = NoOutput
    /\ cli = NoCli
    /\ gen = NoGen
    /\ processed = <<>>

NextSelect == CallBuildContextOn(Queries, ContextTypes, EntryLimits, {DateRangeDays})

SpecSelect == InitSelect /\ [][NextSelect]_vars

----------------------------------------------------------------------------
(* The context builder *)

\* MAX_CONTEXT_SIZE passes Config._validate_config: it is positive
TokenBudgets == 1..MaxTokens

\* nothing relevant, or at least one entry
Renderings == {0} \cup (MinRendering..MaxRendering)

NextContext == CallBuildContext(TokenBudgets, Renderings)

SpecContext == Init /\ [][NextContext]_vars

----------------------------------------------------------------------------
(* The parser on long envelopes *)

\* long envelopes: each structured item builds a valid proposal, raises
\* TypeError when built, or builds a proposal whose content is a number
LongEnvelopes ==
    LET goal == TelosProposal("add_goal", A, NoId, NoId, NONE, NONE)
        odd == TelosProposal("add_goal", NumberContent, NoId, NoId, NONE, NONE)
        entry == JournalProposal("add_entry", A, "reflection", <<>>,
                                 NONE, NONE, NONE) IN
    {Envelope("object", "p", Number(8), t, j) :
        t \in SeqsUpTo({JsonItem("ok", goal), JsonItem("unknown_key", goal),
                        JsonItem("ok", odd)},
                       MaxEnvelope),
        j \in SeqsUpTo({JsonItem("ok", entry)}, 1)}

LongOutputs ==
    {LlmOutput("json", e, "undecodable", NoEnvelope, NoText) : e \in LongEnvelopes}
    \cup {LlmOutput("none", NoEnvelope, "json", e, NoText) : e \in LongEnvelopes}
    \cup {LlmOutput("none", NoEnvelope, "undecodable", NoEnvelope,
                    TextView(g, FALSE, r)) :
             g \in SeqsUpTo({A}, MaxEnvelope), r \in SeqsUpTo({A}, 2)}

NextCeiling == CallParse(LongOutputs)

SpecCeiling == ParseInit(LongOutputs) /\ [][NextCeiling]_vars

----------------------------------------------------------------------------
(* Properties *)

IsPrefix(a, b) == Len(a) <= Len(b) /\ SubSeq(b, 1, Len(a)) = a

\* the lines of `file` that are status updates of `id`
UpdatesOf(file, id) ==
    SelectSeq(file, LAMBDA l : l.type = "status_update" /\ l.target_id = id)

\* the lines of `file` that are creation records with this id
CreationsOf(file, id) ==
    SelectSeq(file, LAMBDA l : l.type \in {"goal", "task"} /\ l.id = id)

\* The current status of a record, as section 3 of the specification
\* defines it: the new_status of the annotation appended last, or the
\* status of the creation record when there is none.
CurrentStatus(file, rec) ==
    LET ups == UpdatesOf(file, rec.id) IN
    IF ups = <<>> THEN rec.status ELSE ups[Len(ups)].new_status

\* the status a creation record is written with
CreationStatus(type) == IF type = "goal" THEN "active" ELSE "pending"

\* the steps that belong to a call of apply_changes_with_audit
ApplyOps ==
    {"apply_changes_with_audit", "apply_begin", "apply_talaos_change",
     "apply_journal_change"}

(* C1: whatever call is made - add_goal, add_task, update_status,
   add_entry, apply_changes_with_audit, succeeding or failing - the content
   of telos.jsonl, of journal.md and of changes.jsonl before the step is a
   prefix of its content after the step. *)
C1_AppendOnly ==
    [][/\ IsPrefix(telos, telos')
       /\ IsPrefix(journal, journal')
       /\ IsPrefix(changes, changes')]_vars

\* an approved proposal was applied to logs that already held lines, and
\* all three logs hold lines
C1_Witness ==
    /\ last.op = "apply_changes_with_audit" /\ last.ret = "results"
    /\ Len(telos) >= 2 /\ Blocks(journal) >= 1 /\ Len(changes) >= 2
    /\ \E i \in 1..Len(telos) : telos[i].type = "status_update"

(* C2: after update_status(id, S) returned true, the status update
   appended last for id has new_status S, and every creation record of id
   is the line it was before the call, carrying the status it was created
   with; also when id was updated before. *)
C2_StatusResolution ==
    [][(last'.op = "update_status" /\ last'.ret = "True") =>
          /\ UpdatesOf(telos', last'.id) /= <<>>
          /\ \A i \in 1..Len(telos') :
                (telos'[i].type \in {"goal", "task"} /\ telos'[i].id = last'.id)
                => /\ CurrentStatus(telos', telos'[i]) = last'.status
                   /\ telos'[i].status = CreationStatus(telos'[i].type)
                   /\ i <= Len(telos) /\ telos[i] = telos'[i]]_vars

\* the second successful update of one id
C2_Witness ==
    /\ last.op = "update_status" /\ last.ret = "True"
    /\ Len(UpdatesOf(telos, last.id)) >= 2
    /\ UpdatesOf(telos, last.id)[1].new_status /= last.status

\* the goals (type = "goal") or tasks of the file whose current status is S
WithCurrentStatus(file, type, S) ==
    SelectSeq(file, LAMBDA l : l.type = type /\ CurrentStatus(file, l) = S)

(* C3: get_goals(S) and get_tasks(S) return exactly the goals and tasks
   whose current status - the new_status of the latest annotation, or the
   creation status when there is none - is S. *)
C3_FilterByCurrentStatus ==
    \A S \in GoalStatuses \cup TaskStatuses :
        /\ get_goals(telos, S).entries = WithCurrentStatus(telos, "goal", S)
        /\ get_tasks(telos, S).entries = WithCurrentStatus(telos, "task", S)

(* C4: add_goal and add_task with empty content fail with a validation
   error and append nothing to the structured log. *)
C4_EmptyContentRejected ==
    [][(last'.op \in {"add_goal", "add_task"} /\ last'.content = <<>>) =>
          (last'.ret = "TelosError" /\ telos' = telos)]_vars

\* the statuses the specification allows for a record of this kind
AllowedStatuses(type) ==
    CASE type = "goal" -> {"active", "completed", "cancelled"}
      [] type = "task" -> {"pending", "in_progress", "completed", "cancelled"}
      [] OTHER -> {}

(* C5: update_status(id, s) returns false and leaves the log alone when no
   line of the log has that id; raises a validation error and leaves the
   log alone when s is not a status of the kind of the record that has the
   id; and otherwise returns true and appends exactly one status_update
   line for id with new_status s. *)
C5_UpdateStatusOutcome ==
    [][last'.op = "update_status" =>
          LET hits == SelectSeq(telos, LAMBDA l : l.id = last'.id) IN
          IF hits = <<>>
          THEN last'.ret = "False" /\ telos' = telos
          ELSE IF last'.status \notin AllowedStatuses(hits[1].type)
          THEN last'.ret = "TelosError" /\ telos' = telos
          ELSE /\ last'.ret = "True"
               /\ Len(telos') = Len(telos) + 1
               /\ SubSeq(telos', 1, Len(telos)) = telos
               /\ telos'[Len(telos')].type = "status_update"
               /\ telos'[Len(telos')].target_id = last'.id
               /\ telos'[Len(telos')].new_status = last'.status]_vars

\* all three outcomes: an update recorded, ...
C5_Witness ==
    /\ last.op = "update_status" /\ last.ret = "True"
    /\ telos[Len(telos)].target_type = "task"
    /\ telos[Len(telos)].new_status = "pending"

\* ... an unknown id, ...
C5_WitnessNotFound ==
    last.op = "update_status" /\ last.ret = "False" /\ telos /= <<>>

\* ... and a status of the other kind
C5_WitnessInvalid ==
    /\ last.op = "update_status" /\ last.ret = "TelosError"
    /\ last.status = "pending" /\ telos /= <<>>

(* C7: the creation records of the structured log have pairwise distinct
   ids, also when two calls read the same clock value. *)
C7_UniqueIds ==
    \A i, j \in 1..Len(telos) :
        (i /= j /\ telos[i].type \in {"goal", "task"}
                /\ telos[j].type \in {"goal", "task"})
        => telos[i].id /= telos[j].id

(* C6: get_all_entries never aborts on an invalid line: with one damaged
   line in the file it returns, in file order, every line but the damaged
   one. *)
C6_ReadSkipsDamagedLine ==
    LET r == get_all_entries(telos) IN
    /\ r.exc = "none"
    /\ r.entries = SelectSeq(telos, LAMBDA l : ~Damaged(l))

(* C8: every add_entry that succeeds makes get_all_entries and
   search_entries return one entry more, and the new entry has the
   content, type, tags, mood, location and weather that were passed in. *)
C8_JournalRoundTrip ==
    [][(last'.op = "add_entry" /\ last'.ret = "timestamp") =>
          LET before == journal_get_all_entries(journal)
              after == journal_get_all_entries(journal')
              found == search_entries(journal', last'.entry_type)
              new == after[Len(after)] IN
          /\ Len(after) = Len(before) + 1
          /\ new.content = last'.content
          /\ MetaGet(new.frontmatter, "type") = last'.entry_type
          /\ new.frontmatter.tags = last'.tags
          /\ MetaGet(new.frontmatter, "mood") = last'.mood
          /\ MetaGet(new.frontmatter, "location") = last'.location
          /\ MetaGet(new.frontmatter, "weather") = last'.weather
          /\ \E i \in 1..Len(found) : found[i] = new]_vars

(* C9: apply_changes_with_audit called with user_approval = false raises
   at once: no step of the call is taken for it, and the structured log,
   the journal and the audit log stay as they are. *)
C9_NoApprovalNoChange ==
    [][(last'.op \in ApplyOps /\ ~last'.approval) =>
          /\ last'.op = "apply_changes_with_audit"
          /\ last'.ret = "ValueError"
          /\ ~run'.active
          /\ UNCHANGED <<telos, journal, changes>>]_vars

\* a proposal with items was refused while the logs held lines
C9_Witness ==
    /\ last.op = "apply_changes_with_audit" /\ last.ret = "ValueError"
    /\ ~last.approval
    /\ last.proposal.talaos_proposals /= <<>>
    /\ telos /= <<>> /\ changes /= <<>>

\* The validation rules of section 4.5 of the specification, item by item.
EmptyContent(content) == content = NoneText \/ content = <<>>

TalaosItemViolates(tp) ==
    \/ tp.action \notin {"add_goal", "add_task", "update_status"}
    \/ tp.action \in {"add_goal", "add_task"} /\ EmptyContent(tp.content)
    \/ /\ tp.action = "update_status"
       /\ \/ tp.goal_id = NoId /\ tp.task_id = NoId
          \/ tp.new_status \notin
                 AllowedStatuses(IF tp.goal_id /= NoId THEN "goal" ELSE "task")
    \/ tp.priority /= NONE /\ tp.priority \notin {"low", "medium", "high"}

JournalItemViolates(jp) ==
    \/ jp.action /= "add_entry"
    \/ EmptyContent(jp.content)
    \/ jp.entry_type \notin
           {"reflection", "gratitude", "learning", "goal_review", "planning"}

HasViolation(proposal) ==
    \/ \E i \in 1..Len(proposal.talaos_proposals) :
           TalaosItemViolates(proposal.talaos_proposals[i])
    \/ \E i \in 1..Len(proposal.journal_proposals) :
           JournalItemViolates(proposal.journal_proposals[i])

(* C10: when an item of the decoded intent violates a validation rule,
   parse_llm_output raises the validation error and returns no intent -
   not the intent without the item - and the three logs stay as they
   are. *)
C10_ValidationAllOrNothing ==
    [][(last'.op = "parse_llm_output" /\ HasViolation(last'.decoded)) =>
          /\ last'.ret = "ProposalError"
          /\ last'.proposal = NoProposal
          /\ UNCHANGED <<telos, journal, changes>>]_vars

\* an intent with a valid item and a violating item was refused, the logs
\* holding lines
C10_Witness ==
    /\ last.op = "parse_llm_output" /\ last.ret = "ProposalError"
    /\ last.proposal = NoProposal
    /\ \E i, j \in 1..Len(last.decoded.talaos_proposals) :
          /\ TalaosItemViolates(last.decoded.talaos_proposals[i])
          /\ ~TalaosItemViolates(last.decoded.talaos_proposals[j])
    /\ telos /= <<>> /\ journal /= <<>> /\ changes /= <<>>

\* the number of items of an intent, over both lists
TotalItems(proposal) ==
    Len(proposal.talaos_proposals) + Len(proposal.journal_proposals)

(* C11: an intent parse_llm_output returns has at most 5 items over its two
   lists, and an envelope that decodes to more than 5 items is refused with
   the validation error: no intent is returned, not one cut to 5 items. *)
C11_CeilingNotTruncation ==
    [][last'.op = "parse_llm_output" =>
          /\ last'.ret = "proposal" => TotalItems(last'.proposal) <= 5
          /\ TotalItems(last'.decoded) > 5 =>
                 (last'.ret = "ProposalError" /\ last'.proposal = NoProposal)]_vars

\* six items, each valid on its own, were refused
C11_Witness ==
    /\ last.op = "parse_llm_output" /\ last.ret = "ProposalError"
    /\ TotalItems(last.decoded) = 6
    /\ ~HasViolation(last.decoded)

\* an envelope of six items one of which does not build was accepted with
\* the five others
C11_WitnessFive ==
    /\ last.op = "parse_llm_output" /\ last.ret = "proposal"
    /\ TotalItems(last.proposal) = 5

\* the last n lines of a file
LastLines(file, n) == SubSeq(file, Len(file) - n + 1, Len(file))

\* the items of an intent in the order they are to be applied: the
\* structured ones, then the narrative ones
ItemKinds(proposal) ==
    [i \in 1..Len(proposal.talaos_proposals) |->
        <<"talaos", proposal.talaos_proposals[i].action>>]
    \o [i \in 1..Len(proposal.journal_proposals) |->
        <<"journal", proposal.journal_proposals[i].action>>]

(* C12: an approved call of apply_changes_with_audit on an intent of n
   items returns n records, the i-th being the record of the i-th item
   (structured items first, then narrative ones), and appends these n lines
   to the audit log; and whatever happened to the items before it, an
   add_goal or add_task item is applied and recorded with success = true. *)
C12_BestEffortPerItem ==
    [][/\ (last'.op = "apply_changes_with_audit" /\ last'.ret = "results") =>
            LET n == TotalItems(last'.proposal)
                kinds == ItemKinds(last'.proposal) IN
            /\ Len(last'.records) = n
            /\ \A i \in 1..n :
                  /\ last'.records[i].change_type = kinds[i][1]
                  /\ last'.records[i].action = kinds[i][2]
                  /\ last'.records[i].change_id[3] = i
            /\ Len(changes') = Len(changes) + n
            /\ LastLines(changes', n) = last'.records
       /\ (last'.op = "apply_talaos_change"
           /\ Head(run.talaos).action \in {"add_goal", "add_task"}) =>
            /\ last'.records[1].success
            /\ Len(telos') = Len(telos) + 1]_vars

\* an item that failed was followed by one that succeeded, and both are in
\* the audit log
C12_Witness ==
    /\ last.op = "apply_changes_with_audit" /\ last.ret = "results"
    /\ Len(last.records) = 2
    /\ ~last.records[1].success /\ last.records[2].success
    /\ LastLines(changes, 2) = last.records

(* C13: at every point of a run of apply_changes_with_audit the audit
   log holds, as its last lines, the records of the items attempted so
   far: the record of an item is appended before the next item is
   attempted. *)
C13_AuditFollowsEachItem ==
    run.active =>
        /\ Len(changes) >= Len(run.applied)
        /\ LastLines(changes, Len(run.applied)) = run.applied

(* C14: an approved call of apply_changes_with_audit returns its result
   and raises nothing, and the success flag of the result is true exactly
   when every record of the result has success = true. *)
C14_OverallSuccess ==
    [][(last'.op = "apply_changes_with_audit" /\ last'.approval) =>
          /\ last'.ret = "results"
          /\ last'.success <=>
                 (\A i \in 1..Len(last'.records) : last'.records[i].success)]_vars

\* a status update of an id no record has, among items that succeeded,
\* made the flag false
C14_Witness ==
    /\ last.op = "apply_changes_with_audit" /\ last.ret = "results"
    /\ ~last.success
    /\ \E i, j \in 1..Len(last.records) :
          /\ last.records[i].action = "update_status"
          /\ last.records[i].target_id = MissingId
          /\ ~last.records[i].success
          /\ last.records[j].success

\* all items succeeded and the flag is true
C14_WitnessAll ==
    /\ last.op = "apply_changes_with_audit" /\ last.ret = "results"
    /\ last.success /\ Len(last.records) = 2

(* C15: parse_llm_output raises nothing but the validation error: whatever
   the model output is, it returns an intent or raises ProposalError. *)
C15_ParseNeverRaisesOnStructure ==
    [][last'.op = "parse_llm_output" =>
          last'.ret \in {"proposal", "ProposalError"}]_vars

\* the free-text extractor is what parses this output: no fenced block
\* decodes and the whole output does not decode
FallsBackToText(output) == output.fence /= "json" /\ output.whole /= "json"

(* C16: an intent returned for an output that fell back to the free-text
   extractor has confidence 0.3 (3 tenths), at most 2 structured items and
   at most 1 narrative item; an intent returned for a decoded JSON envelope
   has its confidence between 0 and 1 (10 tenths). *)
C16_TextFallbackObservable ==
    [][(last'.op = "parse_llm_output" /\ last'.ret = "proposal") =>
          IF FallsBackToText(llm)
          THEN /\ last'.proposal.confidence_score = 3
               /\ Len(last'.proposal.talaos_proposals) <= 2
               /\ Len(last'.proposal.journal_proposals) <= 1
          ELSE /\ 0 <= last'.proposal.confidence_score
               /\ last'.proposal.confidence_score <= 10]_vars

\* the extractor returned its full quota
C16_Witness ==
    /\ last.op = "parse_llm_output" /\ last.ret = "proposal"
    /\ last.proposal.proposal_id = "text_proposal_now"
    /\ last.proposal.confidence_score = 3
    /\ Len(last.proposal.talaos_proposals) = 2
    /\ Len(last.proposal.journal_proposals) = 1

\* an envelope whose confidence was out of range was returned clamped
C16_WitnessClamped ==
    /\ last.op = "parse_llm_output" /\ last.ret = "proposal"
    /\ last.proposal.proposal_id = "proposal_now"
    /\ last.proposal.confidence_score \in {0, 10}

(* C17: the text build_context returns is no longer than the character
   budget; it ends with the truncation notice when the rendering was longer
   than the budget; and context_size_chars is the length of the text. *)
C17_BoundedContext ==
    [][last'.op = "build_context" =>
          /\ TextLen(last'.text) <= last'.budget
          /\ last'.rendered > last'.budget => last'.text.notice
          /\ last'.size = TextLen(last'.text)]_vars

(* C18: a handler calls apply_changes_with_audit for the intent it parsed
   at most once, and only when every answer the user gave for this intent
   is yes. *)
C18_AppliedAtMostOnce ==
    [][cli'.calls > cli.calls =>
          /\ cli.calls = 0
          /\ \A i \in 1..Len(cli'.answers) : cli'.answers[i] = "yes"]_vars

(* C19: apply_changes_with_audit validates the intent again: no step of
   an approved call on an intent that violates a validation rule or holds
   more than 5 items changes the structured log or the journal. *)
C19_RevalidatedBeforeApply ==
    [][(/\ last'.op \in ApplyOps /\ last'.approval
        /\ \/ HasViolation(last'.proposal)
           \/ TotalItems(last'.proposal) > 5) =>
          UNCHANGED <<telos, journal>>]_vars

\* what the strategy that is first to match makes of an output: the
\* fenced block when it decodes, else the whole output when it decodes,
\* else the free text
FirstMatch(output) ==
    IF output.fence = "json" THEN parse_json_proposal(output.fenced)
    ELSE IF output.whole = "json" THEN parse_json_proposal(output.body)
    ELSE parse_text_proposal(output.text)

(* C20: the strategy that is first to match decides the result of
   parse_llm_output: what the fenced block gives when it decodes - an
   intent or an error - is the result; the whole output is read as JSON
   only without a decodable fenced block, the free text only when neither
   decodes. *)
C20_FirstStrategyWins ==
    [][last'.op = "parse_llm_output" =>
          /\ last'.ret = FirstMatch(llm).ret
          /\ last'.proposal = FirstMatch(llm).proposal
          /\ llm.fence = "json" =>
                 last'.decoded.proposal_id \in {"fenced", NONE}
          /\ (llm.fence /= "json" /\ llm.whole = "json") =>
                 last'.decoded.proposal_id \in {"whole", NONE}
          /\ (llm.fence /= "json" /\ llm.whole /= "json") =>
                 last'.decoded.proposal_id = "text_proposal_now"]_vars

\* the intent of a fenced block was refused although the text held a
\* suggestion the extractor would have accepted
C20_Witness ==
    /\ last.op = "parse_llm_output" /\ last.ret = "ProposalError"
    /\ last.decoded.proposal_id = "fenced"

\* the whole output was read as JSON
C20_WitnessWhole ==
    /\ last.op = "parse_llm_output" /\ last.ret = "proposal"
    /\ last.proposal.proposal_id = "whole"

\* the free text was read
C20_WitnessText ==
    /\ last.op = "parse_llm_output" /\ last.ret = "proposal"
    /\ last.proposal.proposal_id = "text_proposal_now"

\* the JSON envelope parse_llm_output reads from an output, if any
EnvelopeOf(output) ==
    IF output.fence = "json" THEN output.fenced
    ELSE IF output.whole = "json" THEN output.body ELSE NoEnvelope

\* an item that is malformed: unknown or missing fields, or a content that
\* is not a string
MalformedItem(item) == item.form /= "ok" \/ item.p.content = NumberContent

\* the proposals of the well-formed items, in their order
WellFormed(items) ==
    LET kept == SelectSeq(items, LAMBDA item : ~MalformedItem(item)) IN
    [i \in 1..Len(kept) |-> kept[i].p]

(* C21: when a well-formed envelope holds malformed items and its other
   items pass validation, parse_llm_output returns the intent made of the other
   items, in their order. *)
C21_MalformedItemDropped ==
    [][(/\ last'.op = "parse_llm_output"
        /\ EnvelopeOf(llm).shape = "object"
        /\ EnvelopeOf(llm).confidence.kind /= "text"
        /\ EnvelopeOf(llm).confidence.v /= NaN
        /\ \E i \in 1..Len(EnvelopeOf(llm).talaos_proposals) :
               MalformedItem(EnvelopeOf(llm).talaos_proposals[i])
        /\ \A i \in 1..Len(EnvelopeOf(llm).talaos_proposals) :
               LET item == EnvelopeOf(llm).talaos_proposals[i] IN
               MalformedItem(item) \/ validate_talaos_proposal(item.p) = "ok"
        /\ \A i \in 1..Len(EnvelopeOf(llm).journal_proposals) :
               LET item == EnvelopeOf(llm).journal_proposals[i] IN
               MalformedItem(item) \/ validate_journal_proposal(item.p) = "ok") =>
          /\ last'.ret = "proposal"
          /\ last'.proposal.talaos_proposals =
                 WellFormed(EnvelopeOf(llm).talaos_proposals)
          /\ last'.proposal.journal_proposals =
                 WellFormed(EnvelopeOf(llm).journal_proposals)]_vars

\* the entries of `entries` that `buckets` sends to `bucket`, in order
Pick(entries, buckets, bucket) ==
    LET at == SelectSeq([i \in 1..Len(entries) |-> i],
                        LAMBDA i : buckets[i] = bucket) IN
    [k \in 1..Len(at) |-> entries[at[k]]]

\* `buckets` gives every entry one bucket: its category's, and for a
\* neutral entry the bucket of the context type or, when balanced, the
\* bucket holding fewer of the entries before it, work on a tie
RoutedAsSpecified(categories, context_type, buckets) ==
    \A i \in 1..Len(categories) :
        LET before(b) == Cardinality({j \in 1..(i - 1) : buckets[j] = b}) IN
        buckets[i] = IF categories[i] /= "neutral" THEN categories[i]
                     ELSE IF context_type \in {"work", "personal"}
                     THEN context_type
                     ELSE IF before("work") <= before("personal")
                     THEN "work" ELSE "personal"

\* the two buckets of a store hold its selected entries routed as specified
StoreRouted(entries, categories, context_type, work, personal) ==
    \E buckets \in [1..Len(entries) -> {"work", "personal"}] :
        /\ RoutedAsSpecified(categories, context_type, buckets)
        /\ work = Pick(entries, buckets, "work")
        /\ personal = Pick(entries, buckets, "personal")

(* C22: build_context routes every neutral entry to the bucket of the
   context type (work, personal) or, when balanced, to the bucket that
   holds fewer entries of the same store so far, work on a tie, separately
   for structured and journal entries; every selected entry is in exactly
   one bucket, so work_entries + personal_entries = total_entries. *)
C22_NeutralRouting ==
    [][(last'.op = "build_context" /\ last'.context_type \in ContextTypes) =>
          /\ StoreRouted(last'.selected.talaos,
                         TalaosCategories(last'.selected.talaos),
                         last'.context_type,
                         last'.work.talaos, last'.personal.talaos)
          /\ StoreRouted(last'.selected.journal,
                         JournalCategories(last'.selected.journal),
                         last'.context_type,
                         last'.work.journal, last'.personal.journal)
          /\ last'.work_entries + last'.personal_entries
                 = last'.total_entries]_vars

\* a balanced call split two neutral structured entries between the buckets
C22_Witness ==
    /\ last.op = "build_context" /\ last.context_type = "balanced"
    /\ Len(last.selected.talaos) = 2
    /\ TalaosCategories(last.selected.talaos) = <<"neutral", "neutral">>
    /\ last.work.talaos = <<last.selected.talaos[1]>>
    /\ last.personal.talaos = <<last.selected.talaos[2]>>

\* a balanced call sent a neutral journal entry to the personal bucket
\* because the work bucket held a work entry
C22_WitnessJournal ==
    /\ last.op = "build_context" /\ last.context_type = "balanced"
    /\ Len(last.selected.journal) = 2
    /\ JournalCategories(last.selected.journal) = <<"work", "neutral">>
    /\ Len(last.work.journal) = 1 /\ Len(last.personal.journal) = 1

\* a personal call sent every neutral entry to the personal bucket
C22_WitnessPersonal ==
    /\ last.op = "build_context" /\ last.context_type = "personal"
    /\ Len(last.selected.talaos) = 2
    /\ TalaosCategories(last.selected.talaos) = <<"neutral", "neutral">>
    /\ last.work.talaos = <<>> /\ Len(last.personal.talaos) = 2

\* the journal entries inside the date range of the call whose relevance
\* score against its query is positive
JournalCandidates(file, call, now) ==
    LET entries == journal_get_all_entries(file) IN
    {entries[i] : i \in {k \in 1..Len(entries) :
        /\ ~(entries[k].frontmatter.timestamp < now - call.date_range_days)
        /\ calculate_journal_relevance(entries[k], Lower(call.query), now) > 0}}

(* C23: the journal results of build_context hold every journal entry
   inside the date range whose relevance score against the query is
   positive, whenever max_entries leaves room for all of them - the rule
   that selects structured entries. *)
C23_JournalCandidateRule ==
    [][(last'.op = "build_context" /\ last'.context_type \in ContextTypes) =>
          LET candidates == JournalCandidates(journal, last', clock) IN
          Cardinality(candidates) <= last'.max_entries =>
              \A e \in candidates :
                  \E k \in 1..Len(last'.selected.journal) :
                      last'.selected.journal[k].entry = e]_vars

\* the record shares a substring, a tag or a word with the query
MatchesQuery(entry, query_lower) ==
    LET content == Lower(ContentOf(entry)) IN
    \/ Contains(content, query_lower)
    \/ TagMatches(TagsOf(entry), query_lower)
    \/ Words(query_lower) \cap Words(content) /= {}

(* C30: every structured entry build_context selects is the creation record
   of a goal or a task that matches the query by substring, tag or word; a
   record matching in none of these ways and a status_update annotation are
   not selected, however recent. *)
C30_OnlyMatchingCreationRecords ==
    [][(last'.op = "build_context" /\ last'.context_type \in ContextTypes) =>
          \A k \in 1..Len(last'.selected.talaos) :
              LET entry == last'.selected.talaos[k].entry IN
              /\ entry.type \in {"goal", "task"}
              /\ MatchesQuery(entry, Lower(last'.query))]_vars

(* C24: a failed append is reported: when apply_changes_with_audit returns
   success = true every record it returns was appended to changes.jsonl,
   and add_goal returns an id only when its line is in telos.jsonl. *)
C24_FailedAppendSurfaced ==
    [][/\ (last'.op = "apply_changes_with_audit" /\ last'.ret = "results"
            /\ last'.success) =>
               changes' = changes \o last'.records
       /\ (last'.op = "add_goal" /\ last'.ret = "id") =>
               (telos' /= telos /\ telos'[Len(telos')].id = last'.id)]_vars

\* the attempt received a response and the response passed validation
Validates(outcome, expected_format) ==
    \/ expected_format = "json" /\ outcome = "json"
    \/ expected_format = "text" /\ outcome \in {"json", "prose"}

(* C25: generate_with_validation calls the backend at most max_retries + 1
   times and returns: with success = true and the 1-based number of the
   attempt as soon as an attempt validates, no call following it, and with
   success = false and attempts = max_retries + 1 when no attempt did. *)
C25_BoundedRetries ==
    /\ [](Len(gen.outcomes) <= gen.max_retries)
    /\ [][last'.op = "generate_with_validation" =>
            LET met == last'.outcomes
                n == Len(met) IN
            /\ ~gen'.active
            /\ n <= last'.max_retries + 1
            /\ \A i \in 1..(n - 1) : ~Validates(met[i], last'.expected_format)
            /\ IF last'.success
               THEN /\ Validates(met[n], last'.expected_format)
                    /\ last'.attempt = n
               ELSE /\ ~Validates(met[n], last'.expected_format)
                    /\ n = last'.max_retries + 1
                    /\ last'.attempts = last'.max_retries + 1]_vars
    /\ (gen.active ~> ~gen.active)

\* a call with max_retries = 2 succeeded at its third attempt
C25_Witness ==
    /\ last.op = "generate_with_validation" /\ last.success
    /\ last.max_retries = 2 /\ last.attempt = 3 /\ Len(last.outcomes) = 3

\* a call with max_retries = 2 gave up after three calls
C25_WitnessFailure ==
    /\ last.op = "generate_with_validation" /\ ~last.success
    /\ last.max_retries = 2 /\ last.attempts = 3 /\ Len(last.outcomes) = 3

\* a call succeeded at its first attempt although it could have retried
C25_WitnessFirst ==
    /\ last.op = "generate_with_validation" /\ last.success
    /\ last.max_retries = 2 /\ last.attempt = 1 /\ Len(last.outcomes) = 1

(* C26: a generate_text call that ends in a timeout or a connection failure
   is followed by no further call: generate_with_validation returns
   success = false to its caller right after it. *)
C26_TransportFailureNotRetried ==
    [][\A o \in {"timeout", "refused"} :
          (/\ gen.active
           /\ \/ gen'.outcomes = Append(gen.outcomes, o)
              \/ (last'.op = "generate_with_validation"
                  /\ last'.outcomes = Append(gen.outcomes, o))) =>
              (/\ ~gen'.active
               /\ last'.op = "generate_with_validation" /\ ~last'.success)]_vars

(* C27: process_emails records a message id only after the analysis of the
   run succeeded: when the generation call fails nothing is recorded,
   emails_processed is 0 and success is false; and no message whose id is
   already recorded is analysed. *)
C27_MarkedOnlyAfterAnalysis ==
    [][last'.op = "process_emails" =>
          /\ last'.generation \in {"timeout", "refused"} =>
                 /\ processed' = processed
                 /\ last'.emails_processed = 0
                 /\ ~last'.success
          /\ processed' /= processed => last'.success
          /\ \A i \in 1..Len(last'.analysed) :
                 ~is_email_processed(processed, last'.analysed[i])]_vars

\* the status the target of the annotation at line i had just before it:
\* the new_status of the annotation before it, or the creation status
StatusBefore(file, i) ==
    LET before == SubSeq(file, 1, i - 1)
        earlier == UpdatesOf(before, file[i].target_id)
        created == CreationsOf(before, file[i].target_id) IN
    IF earlier /= <<>> THEN earlier[Len(earlier)].new_status
    ELSE created[1].status

(* C28: in every status_update record of the log, old_status is the status
   its target had just before the update - the new_status of the previous
   annotation of the same id, or the creation status for the first one -
   so the annotations of an id form a chain. *)
C28_StatusChain ==
    \A i \in 1..Len(telos) :
        (/\ telos[i].type = "status_update"
         /\ CreationsOf(SubSeq(telos, 1, i - 1), telos[i].target_id) /= <<>>)
        => telos[i].old_status = StatusBefore(telos, i)

\* the id an update_status item carries, in goal_id or in task_id
TargetOf(tp) == IF tp.goal_id /= NoId THEN tp.goal_id ELSE tp.task_id

(* C29: an update_status item that passes validation and whose target id is
   the id of a goal or task of the structured store is applied: its change
   record has success = true and one annotation for the target is appended,
   whether goal_id or task_id carries the id. *)
C29_ValidatedUpdateApplies ==
    [][(/\ last'.op = "apply_talaos_change"
        /\ Head(run.talaos).action = "update_status"
        /\ validate_talaos_proposal(Head(run.talaos)) = "ok"
        /\ CreationsOf(telos, TargetOf(Head(run.talaos))) /= <<>>) =>
          /\ last'.records[1].success
          /\ Len(telos') = Len(telos) + 1
          /\ telos'[Len(telos')].type = "status_update"
          /\ telos'[Len(telos')].target_id = TargetOf(Head(run.talaos))
          /\ telos'[Len(telos')].new_status = Head(run.talaos).new_status]_vars

====
